---- MODULE Spec2Model ----
(***************************************************************************)
(* LangoSpark backend: the AI-lessons content generation pipeline          *)
(* (src/src/controllers/ai-lessons.controllers.ts) over the Prisma store.  *)
(*                                                                         *)
(* Two specifications:                                                     *)
(*   SpecParse  safeJsonParse as a function of the raw model text          *)
(*   Spec       the route handlers as interleaved request state machines   *)
(***************************************************************************)
EXTENDS Integers, Sequences, FiniteSets, TLC

(***************************************************************************)
(* Bounds                                                                  *)
(***************************************************************************)
\* longest raw model text, in tokens
MaxRawLen == 5
\* number of requests that are served, possibly concurrently
NumReq == 2

\* the longest target text of a pronunciation request (SpecPron)
MaxText == 3

(***************************************************************************)
(* Raw model text.  A text is a sequence of lexical tokens:                *)
(*   "{" "}" "[" "]" ","   the JSON punctuation                            *)
(*   "k"   a member key with its colon          ("word":)                  *)
(*   "s"   a JSON string literal, a scalar      ("hola")                   *)
(*   "p"   a word of prose                      (Here)                     *)
(*   "F"   a code fence                         (```)                      *)
(*   "J"   the language tag json                (json)                     *)
(*   "w"   white space                                                     *)
(***************************************************************************)
Tokens == {"{", "}", "[", "]", ",", "k", "s", "p", "F", "J", "w"}

Texts(n) == UNION {[1..m -> Tokens] : m \in 0..n}

\* the value JSON.parse builds: a string, an array of values, an object
\* (its member values in order; the keys are all the token "k")
JStr == [t |-> "str", items |-> <<>>]

JArr(vs) == [t |-> "arr", items |-> vs]

JObj(vs) == [t |-> "obj", items |-> vs]

NoValue == [t |-> "none", items |-> <<>>]

Fail == [ok |-> FALSE, val |-> NoValue, next |-> 0]

RECURSIVE RemoveWs(_)
\* JSON.parse ignores white space between tokens
RemoveWs(s) ==
  IF s = <<>> THEN <<>>
  ELSE IF Head(s) = "w" THEN RemoveWs(Tail(s))
       ELSE <<Head(s)>> \o RemoveWs(Tail(s))

RECURSIVE ParseValue(_, _), ParseElems(_, _, _), ParseMembers(_, _, _)
\* the JSON grammar: value at position i of s
ParseValue(s, i) ==
  IF i > Len(s) THEN Fail
  ELSE IF s[i] = "s" THEN [ok |-> TRUE, val |-> JStr, next |-> i + 1]
  ELSE IF s[i] = "[" THEN
    IF i + 1 <= Len(s) /\ s[i + 1] = "]"
    THEN [ok |-> TRUE, val |-> JArr(<<>>), next |-> i + 2]
    ELSE ParseElems(s, i + 1, <<>>)
  ELSE IF s[i] = "{" THEN
    IF i + 1 <= Len(s) /\ s[i + 1] = "}"
    THEN [ok |-> TRUE, val |-> JObj(<<>>), next |-> i + 2]
    ELSE ParseMembers(s, i + 1, <<>>)
  ELSE Fail

\* the elements of an array, after "[" or ","
ParseElems(s, i, acc) ==
  LET v == ParseValue(s, i) IN
  IF ~v.ok \/ v.next > Len(s) THEN Fail
  ELSE IF s[v.next] = "," THEN ParseElems(s, v.next + 1, Append(acc, v.val))
  ELSE IF s[v.next] = "]"
       THEN [ok |-> TRUE, val |-> JArr(Append(acc, v.val)), next |-> v.next + 1]
       ELSE Fail

\* the members of an object, after "{" or ","
ParseMembers(s, i, acc) ==
  IF i > Len(s) \/ s[i] # "k" THEN Fail
  ELSE LET v == ParseValue(s, i + 1) IN
    IF ~v.ok \/ v.next > Len(s) THEN Fail
    ELSE IF s[v.next] = "," THEN ParseMembers(s, v.next + 1, Append(acc, v.val))
    ELSE IF s[v.next] = "}"
         THEN [ok |-> TRUE, val |-> JObj(Append(acc, v.val)), next |-> v.next + 1]
         ELSE Fail

\* JSON.parse: the whole text is one value, or it throws (ok = FALSE)
JsonParse(text) ==
  LET s == RemoveWs(text)
      v == ParseValue(s, 1)
  IN IF v.ok /\ v.next = Len(s) + 1
     THEN [ok |-> TRUE, val |-> v.val]
     ELSE [ok |-> FALSE, val |-> NoValue]

RECURSIVE TrimStart(_)
TrimStart(s) == IF s # <<>> /\ Head(s) = "w" THEN TrimStart(Tail(s)) ELSE s

RECURSIVE TrimEnd(_)
TrimEnd(s) ==
  IF s # <<>> /\ s[Len(s)] = "w" THEN TrimEnd(SubSeq(s, 1, Len(s) - 1)) ELSE s

\* String.prototype.trim
Trim(s) == TrimEnd(TrimStart(s))

\* .replace(/^```json\s*/i, "")
StripFenceJson(s) ==
  IF Len(s) >= 2 /\ s[1] = "F" /\ s[2] = "J"
  THEN TrimStart(SubSeq(s, 3, Len(s))) ELSE s

\* .replace(/^```\s*/i, "")
StripFenceOpen(s) ==
  IF Len(s) >= 1 /\ s[1] = "F" THEN TrimStart(Tail(s)) ELSE s

\* .replace(/```$/i, "")
StripFenceClose(s) ==
  IF Len(s) >= 1 /\ s[Len(s)] = "F" THEN SubSeq(s, 1, Len(s) - 1) ELSE s

\* the text with its fence markers removed, line 24-28
Cleaned(text) == Trim(StripFenceClose(StripFenceOpen(StripFenceJson(text))))

Positions(s, tok) == {i \in 1..Len(s) : s[i] = tok}

Min(S) == CHOOSE x \in S : \A y \in S : x <= y

Max(S) == CHOOSE x \in S : \A y \in S : x >= y

\* SpanMatch with a lazy quantifier, /<open>[\s\S]*?<close>/: the span ends
\* at the first close
SpanMatch_Lazy(s, open, close) ==
  LET os == Positions(s, open)
      cs == {j \in Positions(s, close) : os # {} /\ j > Min(os)}
  IN IF os # {} /\ cs # {}
     THEN [found |-> TRUE, text |-> SubSeq(s, Min(os), Min(cs))]
     ELSE [found |-> FALSE, text |-> <<>>]

\* s.match(/<open>[\s\S]*<close>/): from the first open to the last close.
\* <<FALSE, _>> when the expression does not match
SpanMatch(s, open, close) ==
  LET os == Positions(s, open)
      cs == Positions(s, close)
  IN IF os # {} /\ cs # {} /\ Min(os) < Max(cs)
     THEN [found |-> TRUE, text |-> SubSeq(s, Min(os), Max(cs))]
     ELSE [found |-> FALSE, text |-> <<>>]

Threw == [ok |-> FALSE, val |-> NoValue, by |-> 0]

\* the fourth strategy alone, line 41-46
ArrStrategy(cleaned) ==
  LET m == SpanMatch(cleaned, "[", "]")
      j == JsonParse(m.text)
  IN IF m.found /\ j.ok
     THEN [ok |-> TRUE, val |-> j.val, by |-> 4]
     ELSE Threw

\* the span strategies in the other order: the array span is tried first
ObjStrategy_ArrayFirst(cleaned) ==
  LET m == SpanMatch(cleaned, "{", "}") IN
  IF ArrStrategy(cleaned).ok THEN ArrStrategy(cleaned)
  ELSE IF m.found /\ JsonParse(m.text).ok
       THEN [ok |-> TRUE, val |-> JsonParse(m.text).val, by |-> 3]
       ELSE Threw

\* the third strategy, line 34-39, then the fourth
ObjStrategy(cleaned) ==
  LET m == SpanMatch(cleaned, "{", "}")
      j == JsonParse(m.text)
  IN IF m.found /\ j.ok
     THEN [ok |-> TRUE, val |-> j.val, by |-> 3]
     ELSE ArrStrategy(cleaned)

\* safeJsonParse: ok = FALSE is the thrown "Gemini did not return valid JSON";
\* by is the strategy that produced the value
safeJsonParse(raw) ==
  LET text == Trim(raw)
      cleaned == Cleaned(text)
      direct == JsonParse(text)
      unfenced == JsonParse(cleaned)
  IN IF direct.ok
     THEN [ok |-> TRUE, val |-> direct.val, by |-> 1]
     ELSE IF unfenced.ok
          THEN [ok |-> TRUE, val |-> unfenced.val, by |-> 2]
          ELSE ObjStrategy(cleaned)

(***************************************************************************)
(* State                                                                   *)
(***************************************************************************)
VARIABLES
  raw,            \* SpecParse: the raw model text handed to safeJsonParse
  parsed,         \* SpecParse: what safeJsonParse returned for it
  ppc,            \* SpecParse: "raw" before the call, "parsed" after
  apiKey,         \* process.env.GEMINI_API_KEY is set
  lessons,        \* table Lesson
  quizzes,        \* table Quiz
  progress,       \* table LearningProgress
  conversations,  \* table ConversationPractice
  exchanges,      \* table ConversationExchange
  pronunciations, \* table PronunciationFeedback
  users,          \* table User
  leaderboard,    \* table LeaderboardEntry
  pron,           \* SpecPron: one run of the feedback block of getPronunciationFeedback
  reqs            \* the requests: each handler's position and locals

\* the variables that no AI-lessons handler and no auth handler writes
varsElse == <<raw, parsed, ppc, pron, leaderboard>>

store == <<lessons, quizzes, progress, conversations, exchanges, pronunciations>>

varsGen == <<apiKey, lessons, quizzes, progress, conversations, exchanges,
             pronunciations, users, reqs>>

vars == <<raw, parsed, ppc, apiKey, lessons, quizzes, progress, conversations,
          exchanges, pronunciations, users, leaderboard, pron, reqs>>

Reqs == 1..NumReq

\* a missing (falsy) id in a request body
NoId == 0

\* the language of the Language table, and an id that names no language
KnownLanguage == 1

UnknownLanguage == 2

\* Lesson ids: the lesson request r creates has id r; one lesson is in the
\* table from the start; UnknownLesson names no lesson
SeedLesson == NumReq + 1

UnknownLesson == NumReq + 2

NotParsed == [ok |-> FALSE, val |-> NoValue, by |-> 0]

\* what model.generateContent does: it rejects (network, timeout, quota) or
\* answers a text
Upstream == <<"upstream-error">>

ModelTexts == {<<"p">>, <<"{", "k", "s", "}">>, <<"[", "{", "}", "]">>}

ModelOutcomes == {Upstream} \cup ModelTexts

\* the same for the prompts whose document is stored as it is returned
\* (lesson, conversation, pronunciation, reply): an array and an object
\* take the same path there
DocOutcomes == {Upstream, <<"p">>, <<"{", "k", "s", "}">>}

\* the fallback documents of the catch blocks
LessonFallback ==
  JObj(<<JArr(<<>>), JStr, JArr(<<>>), JArr(<<>>), JStr>>)

QuizFallback == JArr(<<>>)

ConversationFallback ==
  JObj(<<JStr, JArr(<<>>), JArr(<<JObj(<<JStr, JStr>>), JObj(<<JStr, JStr>>)>>), JStr>>)

PronunciationFallback ==
  JObj(<<JStr, JStr, JArr(<<JStr, JStr, JStr>>), JArr(<<JObj(<<JStr, JStr, JStr>>)>>)>>)

\* no response sent yet
NoRes == [status |-> 0, success |-> FALSE]

\* res.status(code).json({ success: false, ... })
ErrorRes(code) == [status |-> code, success |-> FALSE]

Idle ==
  [kind |-> "none", pc |-> "idle", languageId |-> NoId, lessonId |-> NoId,
   content |-> NoValue, quizContent |-> NoValue, res |-> NoRes,
   \* history of the request, read by the properties only:
   \*   calls        how often the request called model.generateContent
   \*   source       where content came from: "model", or "fallback" (a catch block)
   \*   failure      why callGeminiJSON / callGeminiText threw: "config" (no
   \*                key), "upstream", "extraction" (safeJsonParse threw)
   \*   qSource, qFailure   the same for the call in generateQuizInternal
   \*   qWrite       what prisma.quiz.create did: "stored", "rejected" (by the
   \*                unique index) or "failed" (the database, SpecFault)
   \*   quizExisted  a quiz of the lesson was in the table when the request
   \*                looked it up (generateQuiz, line 240) or when the
   \*                cascade began (generateLesson, line 202/272)
   \*   token        what the Authorization header carried
   \*   accuracy     feedback.accuracy, a local of getPronunciationFeedback
   accuracy |-> 0,
   \*   email, password, newPassword, fullName   req.body of the auth routes
   \*                (password is currentPassword in changePassword)
   email |-> "", password |-> "", newPassword |-> "", fullName |-> "",
   \*   seen         history: the request that last wrote the password of the
   \*                user row a login was decided on (0: none)
   \*   compared     history: what bcrypt.compare answered in changePassword
   seen |-> 0, compared |-> "none",
   calls |-> 0, source |-> "none", failure |-> "none", token |-> "none",
   qSource |-> "none", qFailure |-> "none", qWrite |-> "none",
   \*   dbError      the prisma call of the request that rejected (SpecFault)
   dbError |-> "none",
   \*   quizId, score, completed   req.body of the progress and leaderboard
   \*                routes; validated is the local validatedScore
   \*   lbWrite      history: "stored" once the request has written its
   \*                LeaderboardEntry
   quizId |-> NoId, score |-> [type |-> "undefined", n |-> 0], completed |-> FALSE,
   validated |-> 0, lbWrite |-> "none",
   quizExisted |-> FALSE]

\* SpecPron is not running
NoRun == [pc |-> "off"]

\* bcrypt.hash(password, salt): the hash is no longer the password, and
\* bcrypt.compare finds whether a password is the one that was hashed
Hash(password) == [bcrypt |-> password]

Compare(password, hash) == hash = Hash(password)

\* a member that req.body does not have
Missing == "<undefined>"

\* the user of the access tokens, registered before the requests
SeedUser == NumReq + 1

SeedEmail == "ada@test"

InitUsers ==
  {[id |-> SeedUser, email |-> SeedEmail, password |-> Hash("old"),
    fullName |-> "Ada", setBy |-> 0]}

InitStore ==
  /\ users = InitUsers
  /\ lessons = {[id |-> SeedLesson, languageId |-> KnownLanguage, content |-> LessonFallback]}
  /\ quizzes = {}
  /\ progress = {}
  /\ conversations = {}
  /\ exchanges = {}
  /\ pronunciations = {}
  /\ leaderboard = {}
  /\ reqs = [r \in Reqs |-> Idle]

InitGen ==
  /\ apiKey \in BOOLEAN
  /\ InitStore

Init ==
  /\ InitGen
  /\ raw = <<>>
  /\ parsed = NotParsed
  /\ ppc = "off"
  /\ pron = NoRun

(***************************************************************************)
(* SpecParse: safeJsonParse applied to every raw text up to MaxRawLen      *)
(***************************************************************************)
InitParse ==
  /\ \E head \in Texts(MaxRawLen \div 2),
        tail \in Texts(MaxRawLen - (MaxRawLen \div 2)) : raw = head \o tail
  /\ parsed = NotParsed
  /\ ppc = "raw"
  /\ pron = NoRun
  /\ apiKey = TRUE
  /\ InitStore

\* const raw = result.response.text(); return safeJsonParse(raw)
Extract ==
  /\ ppc = "raw"
  /\ parsed' = safeJsonParse(raw)
  /\ ppc' = "parsed"
  /\ UNCHANGED <<raw, varsGen, pron, leaderboard>>

NextParse == Extract

SpecParse == InitParse /\ [][NextParse]_vars

(***************************************************************************)
(* The route handlers.  A handler runs from one await to the next in one   *)
(* step; between the steps of one request the steps of the others run.     *)
(***************************************************************************)
\* requests arrive in the order of their numbers
Arrives(r) ==
  /\ reqs[r].pc = "idle"
  /\ IF r = 1 THEN TRUE ELSE reqs[r - 1].pc # "idle"

\* the request r with its record replaced by q
Becomes(r, q) == reqs' = [reqs EXCEPT ![r] = q]

\* return res.status(...).json(...)
Respond(q, res) == [q EXCEPT !.pc = "done", !.res = res]

\* the checks of the request moved behind the call of the model
Rejected_AfterInvoke(q, code) ==
  [q EXCEPT !.pc = "done", !.res = [status |-> code, success |-> FALSE],
            !.calls = @ + 1]

\* a handler's check of its request fails, before its try block or its call
\* of the model: return res.status(code).json({ success: false, ... })
Rejected(q, code) == Respond(q, ErrorRes(code))

\* the routes mounted without the middleware: every request goes on
authenticateToken_Open(token) == 0

\* authenticateToken: the status it answers, or 0 when it calls next()
\* with req.user set
authenticateToken(token) ==
  IF token = "none" THEN 401
  ELSE IF token = "bad" THEN 403
  ELSE 0

AuthTokens == {"none", "bad", "ok"}

\* callGeminiText / callGeminiJSON called without looking at the key
KeyMissing_Unchecked == FALSE

\* line 52 and line 70: if (!process.env.GEMINI_API_KEY) throw, before
\* model.generateContent is reached
KeyMissing == ~apiKey

\* callGeminiJSON once the model has been asked: out is what generateContent
\* did.  why names the exception when ok is FALSE.
callGeminiJSON(out) ==
  LET doc == safeJsonParse(out) IN
  IF out = Upstream
  THEN [ok |-> FALSE, val |-> NoValue, why |-> "upstream"]
  ELSE IF doc.ok
       THEN [ok |-> TRUE, val |-> doc.val, why |-> "none"]
       ELSE [ok |-> FALSE, val |-> NoValue, why |-> "extraction"]

\* what the pronunciation prompt is answered with: as ModelOutcomes, and a
\* text that is one JSON scalar
PronunciationOutcomes == ModelOutcomes \cup {<<"s">>}

\* callGeminiJSON with a retry: generateContent is called a second time
Invoke_Retried(q) == [q EXCEPT !.calls = @ + 2]

\* model.generateContent is called
Invoke(q) == [q EXCEPT !.calls = @ + 1]

\* a handler's catch block around callGeminiJSON: doc replaces the content
Fallback(q, doc, why) ==
  [q EXCEPT !.content = doc, !.source = "fallback", !.failure = why]

Extracted(q, val) == [q EXCEPT !.content = val, !.source = "model"]

\* Array.isArray(x) ? x : []
AsArray(x) == IF x.t = "arr" THEN x ELSE JArr(<<>>)

\* the Quiz table without its unique index
QuizCreateRejected_NoIndex(lessonId) == FALSE

\* the unique index Quiz_lessonId_key: prisma.quiz.create rejects a second
\* quiz of a lesson
QuizCreateRejected(lessonId) == \E z \in quizzes : z.lessonId = lessonId

QuizOf(lessonId) == CHOOSE z \in quizzes : z.lessonId = lessonId

QuizRes(z) ==
  [status |-> 200, success |-> TRUE,
   quiz |-> [id |-> z.id, lessonId |-> z.lessonId, questions |-> AsArray(z.questions)]]

(*------------------------- generateLesson --------------------------------*)
\* POST /generate-lesson: authenticateToken, then line 137-157, up to the
\* call of callGeminiJSON (the Language table is written by no handler here)
generateLesson(r) ==
  /\ Arrives(r)
  /\ \E token \in AuthTokens, languageId \in {NoId, KnownLanguage, UnknownLanguage},
        level \in BOOLEAN :
       LET q == [reqs[r] EXCEPT !.kind = "lesson", !.token = token]
           a == [q EXCEPT !.languageId = languageId]
       IN
       Becomes(r,
         IF authenticateToken(token) # 0
         THEN Respond(q, ErrorRes(authenticateToken(token)))
         ELSE IF languageId = NoId \/ ~level
              THEN Rejected(q, 400)
              ELSE IF languageId # KnownLanguage
              THEN Rejected(q, 404)
              ELSE IF KeyMissing
                   THEN [Fallback(a, LessonFallback, "config") EXCEPT !.pc = "gl_createLesson"]
                   ELSE [Invoke(a) EXCEPT !.pc = "gl_generate"])
  /\ UNCHANGED <<apiKey, store, varsElse, users>>

\* line 157-189: callGeminiJSON settles, the model having done out
gl_settles(r, out) ==
  LET q == reqs[r]
      g == callGeminiJSON(out)
  IN
  /\ q.pc = "gl_generate"
  /\ Becomes(r,
       IF g.ok
       THEN [Extracted(q, g.val) EXCEPT !.pc = "gl_createLesson"]
       ELSE [Fallback(q, LessonFallback, g.why) EXCEPT !.pc = "gl_createLesson"])
  /\ UNCHANGED <<apiKey, store, varsElse, users>>

gl_generate(r) == \E out \in DocOutcomes : gl_settles(r, out)

\* prisma.lesson.create not awaited: the row is not yet in the table when
\* generateQuizInternal is called
LessonCreated_NotAwaited(r, q) == {}

\* line 191-199: the row of await prisma.lesson.create
LessonCreated(r, q) ==
  {[id |-> r, languageId |-> q.languageId, content |-> q.content]}

\* line 191-202: prisma.lesson.create, then generateQuizInternal is called
gl_createLesson(r) ==
  LET q == reqs[r] IN
  /\ q.pc = "gl_createLesson"
  /\ lessons' = lessons \cup LessonCreated(r, q)
  /\ Becomes(r, [q EXCEPT !.pc = "qi_findLesson", !.lessonId = r])
  /\ UNCHANGED <<apiKey, quizzes, progress, conversations, exchanges,
                 pronunciations, varsElse, users>>

\* generateQuizInternal called outside a try block: its throw reaches line 225
CascadeFailed_Rethrow(q) == Respond(q, ErrorRes(500))

\* line 203-205: the catch around generateQuizInternal
CascadeFailed(q) == [q EXCEPT !.pc = "gl_createProgress"]

\* line 207-224: prisma.learningProgress.create and the response
gl_createProgress(r) ==
  LET q == reqs[r] IN
  /\ q.pc = "gl_createProgress"
  /\ progress' = progress \cup
       {[id |-> r, lessonId |-> q.lessonId, score |-> 0, completed |-> FALSE]}
  /\ Becomes(r, Respond(q,
       [status |-> 200, success |-> TRUE,
        lesson |-> [id |-> q.lessonId, content |-> q.content],
        progress |-> [id |-> r, completed |-> FALSE, score |-> 0]]))
  /\ UNCHANGED <<apiKey, lessons, quizzes, conversations, exchanges,
                 pronunciations, varsElse, users>>

(*------------------------- generateQuiz ----------------------------------*)
\* POST /generate-quiz: authenticateToken, then line 234-240
generateQuiz(r) ==
  /\ Arrives(r)
  /\ \E token \in AuthTokens, lessonId \in {NoId, UnknownLesson} \cup {l.id : l \in lessons} :
       LET q == [reqs[r] EXCEPT !.kind = "quiz", !.token = token] IN
       Becomes(r,
         IF authenticateToken(token) # 0
         THEN Respond(q, ErrorRes(authenticateToken(token)))
         ELSE IF lessonId = NoId
              THEN Rejected(q, 400)
              ELSE [q EXCEPT !.pc = "gq_findLesson", !.lessonId = lessonId])
  /\ UNCHANGED <<apiKey, store, varsElse, users>>

\* generateQuiz without the look at lesson.quizzes: a quiz is generated anew
HasQuiz_Ignored(lessonId) == FALSE

\* line 249: lesson.Quiz && lesson.Quiz.length > 0
HasQuiz(lessonId) == \E z \in quizzes : z.lessonId = lessonId

\* line 240-258: the lesson with its quizzes; an existing quiz is answered
gq_findLesson(r) ==
  LET q == [reqs[r] EXCEPT !.quizExisted = \E z \in quizzes : z.lessonId = reqs[r].lessonId]
  IN
  /\ reqs[r].pc = "gq_findLesson"
  /\ Becomes(r,
       IF ~\E l \in lessons : l.id = q.lessonId
       THEN Rejected(q, 404)
       ELSE IF HasQuiz(q.lessonId)
            THEN Respond(q, QuizRes(QuizOf(q.lessonId)))
            ELSE [q EXCEPT !.pc = "qi_findLesson"])
  /\ UNCHANGED <<apiKey, store, varsElse, users>>

(*------------------------- generateQuizInternal --------------------------*)
\* generateQuizInternal threw: generateLesson swallows it (line 203),
\* generateQuiz answers 500 (line 265-268)
QuizInternalThrew(q) ==
  IF q.kind = "lesson" THEN CascadeFailed(q) ELSE Respond(q, ErrorRes(500))

QFallback(q, why) ==
  [q EXCEPT !.quizContent = QuizFallback, !.qSource = "fallback", !.qFailure = why]

\* line 272-281: the lesson is looked up, callGeminiJSON is called
qi_findLesson(r) ==
  LET q == IF reqs[r].kind = "lesson"
           THEN [reqs[r] EXCEPT !.quizExisted = QuizCreateRejected(reqs[r].lessonId)]
           ELSE reqs[r]
  IN
  /\ reqs[r].pc = "qi_findLesson"
  /\ Becomes(r,
       IF ~\E l \in lessons : l.id = q.lessonId
       THEN QuizInternalThrew(q)
       ELSE IF KeyMissing
            THEN [QFallback(q, "config") EXCEPT !.pc = "qi_create"]
            ELSE [Invoke(q) EXCEPT !.pc = "qi_generate"])
  /\ UNCHANGED <<apiKey, store, varsElse, users>>

\* line 281-308: callGeminiJSON settles, the model having done out
qi_settles(r, out) ==
  LET q == reqs[r]
      g == callGeminiJSON(out)
  IN
  /\ q.pc = "qi_generate"
  /\ Becomes(r,
       IF g.ok
       THEN [q EXCEPT !.quizContent = g.val, !.qSource = "model", !.pc = "qi_create"]
       ELSE [QFallback(q, g.why) EXCEPT !.pc = "qi_create"])
  /\ UNCHANGED <<apiKey, store, varsElse, users>>

qi_generate(r) == \E out \in ModelOutcomes : qi_settles(r, out)

\* line 310-315: prisma.quiz.create; back in the caller, line 203-207 or
\* line 259-264
qi_create(r) ==
  LET q == reqs[r]
      z == [id |-> r, lessonId |-> q.lessonId, questions |-> q.quizContent]
  IN
  /\ q.pc = "qi_create"
  /\ IF QuizCreateRejected(q.lessonId)
     THEN /\ Becomes(r, QuizInternalThrew([q EXCEPT !.qWrite = "rejected"]))
          /\ UNCHANGED quizzes
     ELSE /\ quizzes' = quizzes \cup {z}
          /\ Becomes(r,
               IF q.kind = "lesson"
               THEN [q EXCEPT !.qWrite = "stored", !.pc = "gl_createProgress"]
               ELSE Respond([q EXCEPT !.qWrite = "stored"], QuizRes(z)))
  /\ UNCHANGED <<apiKey, lessons, progress, conversations, exchanges,
                 pronunciations, varsElse, users>>

(*------------------------- generateConversationPrompt --------------------*)
\* POST /conversation-prompt: authenticateToken, then line 320-340
generateConversationPrompt(r) ==
  /\ Arrives(r)
  /\ \E token \in AuthTokens, languageId \in {NoId, KnownLanguage, UnknownLanguage},
        level \in BOOLEAN :
       LET q == [reqs[r] EXCEPT !.kind = "conversation", !.token = token]
           a == [q EXCEPT !.languageId = languageId]
       IN
       Becomes(r,
         IF authenticateToken(token) # 0
         THEN Respond(q, ErrorRes(authenticateToken(token)))
         ELSE IF languageId = NoId \/ ~level
              THEN Rejected(q, 400)
              ELSE IF languageId # KnownLanguage
              THEN Rejected(q, 404)
              ELSE IF KeyMissing
                   THEN [Fallback(a, ConversationFallback, "config") EXCEPT !.pc = "cp_create"]
                   ELSE [Invoke(a) EXCEPT !.pc = "cp_generate"])
  /\ UNCHANGED <<apiKey, store, varsElse, users>>

\* line 340-372: callGeminiJSON settles, the model having done out
cp_settles(r, out) ==
  LET q == reqs[r]
      g == callGeminiJSON(out)
  IN
  /\ q.pc = "cp_generate"
  /\ Becomes(r,
       IF g.ok
       THEN [Extracted(q, g.val) EXCEPT !.pc = "cp_create"]
       ELSE [Fallback(q, ConversationFallback, g.why) EXCEPT !.pc = "cp_create"])
  /\ UNCHANGED <<apiKey, store, varsElse, users>>

cp_generate(r) == \E out \in DocOutcomes : cp_settles(r, out)

\* line 374-395: prisma.conversationPractice.create and the response
cp_create(r) ==
  LET q == reqs[r] IN
  /\ q.pc = "cp_create"
  /\ conversations' = conversations \cup {[id |-> r, content |-> q.content]}
  /\ Becomes(r, Respond(q,
       [status |-> 200, success |-> TRUE,
        conversation |-> [id |-> r, languageId |-> q.languageId, content |-> q.content]]))
  /\ UNCHANGED <<apiKey, lessons, quizzes, progress, exchanges, pronunciations,
                 varsElse, users>>

(*------------------------- getConversationResponse -----------------------*)
\* POST /conversation-response: authenticateToken, then line 407-438;
\* a throw of callGeminiText reaches line 457
getConversationResponse(r) ==
  /\ Arrives(r)
  /\ \E token \in AuthTokens, languageId \in {NoId, KnownLanguage, UnknownLanguage},
        message \in BOOLEAN :
       LET q == [reqs[r] EXCEPT !.kind = "reply", !.token = token]
           a == [q EXCEPT !.languageId = languageId]
       IN
       Becomes(r,
         IF authenticateToken(token) # 0
         THEN Respond(q, ErrorRes(authenticateToken(token)))
         ELSE IF languageId = NoId \/ ~message
              THEN Rejected(q, 400)
              ELSE IF languageId # KnownLanguage
              THEN Rejected(q, 404)
              ELSE IF KeyMissing
                   THEN Respond([q EXCEPT !.failure = "config"], ErrorRes(500))
                   ELSE [Invoke(a) EXCEPT !.pc = "cr_generate"])
  /\ UNCHANGED <<apiKey, store, varsElse, users>>

\* line 438: callGeminiText settles, the model having done out; the text is
\* taken as it is
cr_settles(r, out) ==
  LET q == reqs[r] IN
  /\ q.pc = "cr_generate"
  /\ Becomes(r,
       IF out = Upstream
       THEN Respond([q EXCEPT !.failure = "upstream"], ErrorRes(500))
       ELSE [q EXCEPT !.content = [t |-> "text", items |-> out],
                      !.source = "model", !.pc = "cr_saveExchange"])
  /\ UNCHANGED <<apiKey, store, varsElse, users>>

cr_generate(r) == \E out \in DocOutcomes : cr_settles(r, out)

\* line 440-456: prisma.conversationExchange.create and the response
cr_saveExchange(r) ==
  LET q == reqs[r] IN
  /\ q.pc = "cr_saveExchange"
  /\ exchanges' = exchanges \cup {[id |-> r, aiResponse |-> q.content]}
  /\ Becomes(r, Respond(q,
       [status |-> 200, success |-> TRUE, data |-> [response |-> q.content]]))
  /\ UNCHANGED <<apiKey, lessons, quizzes, progress, conversations,
                 pronunciations, varsElse, users>>

(*------------------------- getPronunciationFeedback ----------------------*)
\* accuracy is counted in tenths: 7 is 0.7, the range [0.0, 1.0] is 0..10
DefaultAccuracy == 7

\* the accuracy member of the document the model returned: a number, or a
\* value of another type, or no such member
Num(n) == [type |-> "number", n |-> n]

NotNum(type) == [type |-> type, n |-> 0]

AccuracyValues ==
  {NotNum("undefined"), NotNum("string"), NotNum("null"),
   Num(0 - 1), Num(0), Num(10), Num(11)}

\* every accuracy replaced by 0.7
ValidAccuracy_AlwaysDefault(a) == DefaultAccuracy

\* line 511-513: a value that is no number in [0, 1] is replaced by 0.7
ValidAccuracy(a) ==
  IF a.type # "number" \/ a.n < 0 \/ a.n > 10 THEN DefaultAccuracy ELSE a.n


\* POST /pronunciation-feedback: authenticateToken, then line 468-485
getPronunciationFeedback(r) ==
  /\ Arrives(r)
  /\ \E token \in AuthTokens, languageId \in {NoId, KnownLanguage, UnknownLanguage},
        fields \in BOOLEAN :
       LET q == [reqs[r] EXCEPT !.kind = "pronunciation", !.token = token]
           a == [q EXCEPT !.languageId = languageId]
       IN
       Becomes(r,
         IF authenticateToken(token) # 0
         THEN Respond(q, ErrorRes(authenticateToken(token)))
         ELSE IF languageId = NoId \/ ~fields
              THEN Rejected(q, 400)
              ELSE IF languageId # KnownLanguage
              THEN Rejected(q, 404)
              ELSE IF KeyMissing
                   THEN [Fallback(a, PronunciationFallback, "config")
                           EXCEPT !.accuracy = DefaultAccuracy, !.pc = "pf_create"]
                   ELSE [Invoke(a) EXCEPT !.pc = "pf_generate"])
  /\ UNCHANGED <<apiKey, store, varsElse, users>>

\* line 485-535: callGeminiJSON settles and the members of the document are
\* checked, all inside the try block.  On an object or an array the
\* assignments of line 512-516 set the members; on a scalar (the module is
\* strict code) the assignment of line 512 throws a TypeError, on null the
\* read of line 511 does, and the catch block substitutes the fallback.
pf_settles(r, out, acc) ==
  LET q == reqs[r]
      g == callGeminiJSON(out)
  IN
  /\ q.pc = "pf_generate"
  /\ Becomes(r,
       IF ~g.ok
       THEN [Fallback(q, PronunciationFallback, g.why)
               EXCEPT !.accuracy = DefaultAccuracy, !.pc = "pf_create"]
       ELSE IF g.val.t = "obj"
            THEN [Extracted(q, g.val)
                    EXCEPT !.accuracy = ValidAccuracy(acc), !.pc = "pf_create"]
       ELSE IF g.val.t = "arr"
            THEN [Extracted(q, g.val)
                    EXCEPT !.accuracy = ValidAccuracy(NotNum("undefined")),
                           !.pc = "pf_create"]
       ELSE [Fallback(q, PronunciationFallback, "validation")
               EXCEPT !.accuracy = DefaultAccuracy, !.pc = "pf_create"])
  /\ UNCHANGED <<apiKey, store, varsElse, users>>

\* the accuracy member is chosen for the answer that is an object
pf_generate(r) ==
  \E out \in PronunciationOutcomes :
    \E acc \in IF out = <<"{", "k", "s", "}">>
               THEN AccuracyValues ELSE {NotNum("undefined")} :
      pf_settles(r, out, acc)

\* res.json serialises the feedback with JSON.stringify: of an object all
\* members, of an array the elements only, so that the accuracy set on an
\* array at line 512 is not in the response body
SerialisedAccuracy(q) ==
  IF q.content.t = "arr" THEN NotNum("undefined") ELSE Num(q.accuracy)

\* line 537-546: prisma.pronunciationFeedback.create and the response
pf_create(r) ==
  LET q == reqs[r] IN
  /\ q.pc = "pf_create"
  /\ pronunciations' = pronunciations \cup
       {[id |-> r, feedback |-> q.content, accuracy |-> Num(q.accuracy)]}
  /\ Becomes(r, Respond(q,
       [status |-> 200, success |-> TRUE, feedback |-> q.content,
        accuracy |-> SerialisedAccuracy(q)]))
  /\ UNCHANGED <<apiKey, lessons, quizzes, progress, conversations, exchanges,
                 varsElse, users>>

(*------------------------- getLessonContent ------------------------------*)
\* GET /lesson/:lessonId: authenticateToken, then line 558-595; the quiz of
\* the answer has the id "" and no questions when the lesson has none
getLessonContent(r) ==
  /\ Arrives(r)
  /\ \E token \in AuthTokens, lessonId \in {UnknownLesson} \cup {l.id : l \in lessons} :
       LET q == [reqs[r] EXCEPT !.kind = "content", !.token = token]
           a == [q EXCEPT !.lessonId = lessonId]
       IN
       Becomes(r,
         IF authenticateToken(token) # 0
         THEN Respond(q, ErrorRes(authenticateToken(token)))
         ELSE IF ~\E l \in lessons : l.id = lessonId
              THEN Rejected(a, 404)
              ELSE LET lesson == CHOOSE l \in lessons : l.id = lessonId IN
                   Respond(a,
                     [status |-> 200, success |-> TRUE,
                      lesson |->
                        [id |-> lesson.id, content |-> lesson.content,
                         quiz |->
                           IF QuizCreateRejected(lessonId)
                           THEN [id |-> QuizOf(lessonId).id, lessonId |-> lessonId,
                                 questions |-> AsArray(QuizOf(lessonId).questions)]
                           ELSE [id |-> NoId, lessonId |-> lessonId,
                                 questions |-> JArr(<<>>)]]]))
  /\ UNCHANGED <<apiKey, store, varsElse, users>>

(***************************************************************************)
(* Spec: the requests, interleaved                                         *)
(***************************************************************************)
Next ==
  \E r \in Reqs :
    \/ generateLesson(r)
    \/ gl_generate(r)
    \/ gl_createLesson(r)
    \/ gl_createProgress(r)
    \/ generateQuiz(r)
    \/ gq_findLesson(r)
    \/ qi_findLesson(r)
    \/ qi_generate(r)
    \/ qi_create(r)
    \/ generateConversationPrompt(r)
    \/ cp_generate(r)
    \/ cp_create(r)
    \/ getConversationResponse(r)
    \/ cr_generate(r)
    \/ cr_saveExchange(r)
    \/ getPronunciationFeedback(r)
    \/ pf_generate(r)
    \/ pf_create(r)
    \/ getLessonContent(r)

Spec == Init /\ [][Next]_vars

(***************************************************************************)
(* SpecPron: the feedback block of getPronunciationFeedback (line 482-546) *)
(* on every target text up to MaxText and every shape of the document that *)
(* callGeminiJSON returns.                                                 *)
(***************************************************************************)
TextChars == {"a", "b", " "}

\* req.body.targetText: a string, and not the empty one (line 470)
TargetTexts == UNION {[1..n -> TextChars] : n \in 1..MaxText}

\* targetText.split(" ")[0]
FirstWord(t) ==
  LET spaces == {i \in 1..Len(t) : t[i] = " "} IN
  IF spaces = {} THEN t ELSE SubSeq(t, 1, Min(spaces) - 1)

\* the sound without the || targetText of line 529
Sound_FirstWordOnly(t) == FirstWord(t)

\* line 529: targetText.split(" ")[0] || targetText; "" is falsy
Sound(t) == IF FirstWord(t) = <<>> THEN t ELSE FirstWord(t)

\* the members of a feedback document other than accuracy: a string, an
\* array, or a value of another type
Txt(s) == [type |-> "string", v |-> s]

Arr(items) == [type |-> "array", v |-> items]

Other(type) == [type |-> type, v |-> <<>>]

Undefined == Other("undefined")

Phoneme(sound) ==
  [sound |-> sound, accuracy |-> Num(DefaultAccuracy),
   feedback |-> "Focus on clear articulation."]

\* a value without the four members: an array as JSON.parse returns it, a
\* scalar, null; "throws" stands for callGeminiJSON throwing
NoMembers(kind) ==
  [kind |-> kind, accuracy |-> NotNum("undefined"), feedback |-> Undefined,
   suggestions |-> Undefined, phonemes |-> Undefined]

ObjectDocs ==
  [kind : {"object"},
   accuracy : AccuracyValues,
   feedback : {Txt("Well done"), Undefined, Other("number")},
   suggestions : {Arr(<<>>), Arr(<<"tip", "tip">>), Undefined, Other("string")},
   phonemes : {Arr(<<>>), Arr(<<Phoneme(<<"a">>)>>), Undefined, Other("object")}]

PronDocs ==
  ObjectDocs \cup
    {NoMembers("array"), NoMembers("scalar"), NoMembers("null"), NoMembers("throws")}

\* line 511-516: the repair rules, on an object or an array
Normalize(d) ==
  [d EXCEPT
     !.accuracy = Num(ValidAccuracy(@)),
     !.feedback = IF @.type # "string" THEN Txt("Good attempt - keep practicing!") ELSE @,
     !.suggestions = IF @.type # "array" THEN Arr(<<>>) ELSE @,
     !.phonemes = IF @.type # "array" THEN Arr(<<>>) ELSE @]

\* line 519-534: the fallback of the catch block
FallbackFeedback(t) ==
  [kind |-> "object",
   accuracy |-> Num(DefaultAccuracy),
   feedback |-> Txt(<<"We received your pronunciation attempt for", t>>),
   suggestions |-> Arr(<<"Speak slowly and clearly", "Repeat the phrase 3 times",
                         "Record again in a quiet room">>),
   phonemes |-> Arr(<<Phoneme(Sound(t))>>)]

\* line 484-535: the try block and its catch.  The rules throw on a scalar
\* (assignment to a member of a primitive in strict code) and on null.
FeedbackOf(d, t) ==
  IF d.kind \in {"object", "array"} THEN Normalize(d) ELSE FallbackFeedback(t)

\* JSON.stringify(feedback), also in res.json: of an array the elements
\* only, without the members set on it
Serialised(f) == IF f.kind = "array" THEN NoMembers("array") ELSE f

NoRow == [sentence |-> <<>>, accuracy |-> NotNum("undefined"), feedback |-> [json |-> NoMembers("none")]]

InitPron ==
  /\ \E t \in TargetTexts, d \in PronDocs :
       pron = [pc |-> "asked", targetText |-> t, doc |-> d,
               feedback |-> NoMembers("none"), row |-> NoRow,
               body |-> NoMembers("none")]
  /\ raw = <<>>
  /\ parsed = NotParsed
  /\ ppc = "off"
  /\ apiKey = TRUE
  /\ InitStore

\* line 484-535: callGeminiJSON has settled, feedback is determined
pn_feedback ==
  /\ pron.pc = "asked"
  /\ pron' = [pron EXCEPT !.pc = "validated",
                          !.feedback = FeedbackOf(pron.doc, pron.targetText)]
  /\ UNCHANGED <<raw, parsed, ppc, leaderboard, varsGen>>

\* line 537-546: the row of prisma.pronunciationFeedback.create and the body
\* of res.json
pn_respond ==
  /\ pron.pc = "validated"
  /\ pron' = [pron EXCEPT
                !.pc = "done",
                !.row = [sentence |-> pron.targetText,
                         accuracy |-> pron.feedback.accuracy,
                         feedback |-> [json |-> Serialised(pron.feedback)]],
                !.body = Serialised(pron.feedback)]
  /\ UNCHANGED <<raw, parsed, ppc, leaderboard, varsGen>>

NextPron == pn_feedback \/ pn_respond

SpecPron == InitPron /\ [][NextPron]_vars

(***************************************************************************)
(* SpecProgress: the routes that write scores.  POST /api/progress/lesson, *)
(* POST /api/progress/quiz and POST /api/leaderboard/entry, all behind     *)
(* authenticateToken, next to generate-lesson, whose cascade creates the   *)
(* quizzes.  A score is counted in tenths of a point: Num(795) is 79.5.    *)
(***************************************************************************)
\* a quiz of the seed lesson that is stored before the requests; an id that
\* names no quiz
SeedQuiz == NumReq + 1

UnknownQuiz == NumReq + 2

\* req.body.score: a value that is no number, numbers below, in and above
\* the range 0..100
ScoreValues ==
  {NotNum("string"), Num(0 - 1), Num(504), Num(795), Num(1000), Num(1004)}

\* Math.round of a number that is not negative: the nearest integer, a half
\* is rounded up
MathRound(n) == (n + 5) \div 10

\* a score stored as it is submitted, rounded only
validatedScore_Unchecked(score) ==
  IF score.type = "number" /\ score.n >= 0 THEN MathRound(score.n) ELSE 0

\* progress.controllers.ts line 238-240, 452-454 and leaderboard.controllers.ts
\* line 64-66: typeof score === 'number' && score >= 0 && score <= 100
\* ? Math.round(score) : 0
validatedScore(score) ==
  IF score.type = "number" /\ score.n >= 0 /\ score.n <= 1000
  THEN MathRound(score.n)
  ELSE 0

\* prisma.learningProgress.upsert on the unique key (userId, lessonId), for
\* the user of the token
ProgressUpsert(r, lessonId, score, completed) ==
  IF \E p \in progress : p.lessonId = lessonId
  THEN {IF p.lessonId = lessonId
        THEN [p EXCEPT !.score = score, !.completed = completed]
        ELSE p : p \in progress}
  ELSE progress \cup
         {[id |-> r, lessonId |-> lessonId, score |-> score, completed |-> completed]}

\* prisma.leaderboardEntry.upsert (progress.controllers.ts line 482-500) and
\* the findUnique / update / create of the transaction
\* (leaderboard.controllers.ts line 69-116), on the unique key
\* (userId, quizId): the score of an existing entry is set to the new one
LeaderboardUpsert(quizId, score) ==
  IF \E e \in leaderboard : e.quizId = quizId
  THEN {IF e.quizId = quizId THEN [e EXCEPT !.score = score] ELSE e : e \in leaderboard}
  ELSE leaderboard \cup {[userId |-> SeedUser, quizId |-> quizId, score |-> score]}

InitProgress ==
  /\ apiKey \in BOOLEAN
  /\ users = InitUsers
  /\ lessons = {[id |-> SeedLesson, languageId |-> KnownLanguage, content |-> LessonFallback]}
  /\ quizzes = {[id |-> SeedQuiz, lessonId |-> SeedLesson, questions |-> QuizFallback]}
  /\ progress = {}
  /\ conversations = {}
  /\ exchanges = {}
  /\ pronunciations = {}
  /\ leaderboard = {}
  /\ reqs = [r \in Reqs |-> Idle]
  /\ raw = <<>>
  /\ parsed = NotParsed
  /\ ppc = "off"
  /\ pron = NoRun

(*------------------------- updateLessonProgress --------------------------*)
\* POST /api/progress/lesson: authenticateToken, then line 212-219
updateLessonProgress(r) ==
  /\ Arrives(r)
  /\ \E token \in AuthTokens, lessonId \in {UnknownLesson} \cup {l.id : l \in lessons},
        score \in ScoreValues, completed \in BOOLEAN :
       LET q == [reqs[r] EXCEPT !.kind = "lessonProgress", !.token = token] IN
       Becomes(r,
         IF authenticateToken(token) # 0
         THEN Respond(q, ErrorRes(authenticateToken(token)))
         ELSE [q EXCEPT !.pc = "ulp_findLesson", !.lessonId = lessonId,
                        !.score = score, !.completed = completed])
  /\ UNCHANGED <<apiKey, store, varsElse, users>>

\* line 219-240: the lesson is looked up, the score is validated
ulp_findLesson(r) ==
  LET q == reqs[r] IN
  /\ q.pc = "ulp_findLesson"
  /\ Becomes(r,
       IF ~\E l \in lessons : l.id = q.lessonId
       THEN Respond(q, ErrorRes(404))
       ELSE [q EXCEPT !.pc = "ulp_upsert", !.validated = validatedScore(q.score)])
  /\ UNCHANGED <<apiKey, store, varsElse, users>>

\* line 243-283: prisma.learningProgress.upsert and the response
ulp_upsert(r) ==
  LET q == reqs[r] IN
  /\ q.pc = "ulp_upsert"
  /\ progress' = ProgressUpsert(r, q.lessonId, q.validated, q.completed)
  /\ Becomes(r, Respond(q,
       [status |-> 200, success |-> TRUE,
        data |-> [lessonId |-> q.lessonId, score |-> q.validated,
                  completed |-> q.completed]]))
  /\ UNCHANGED <<apiKey, lessons, quizzes, conversations, exchanges,
                 pronunciations, varsElse, users>>

(*------------------------- updateQuizProgress ----------------------------*)
\* POST /api/progress/quiz: authenticateToken, then line 421-428
updateQuizProgress(r) ==
  /\ Arrives(r)
  /\ \E token \in AuthTokens, quizId \in {UnknownQuiz} \cup {z.id : z \in quizzes},
        score \in ScoreValues :
       LET q == [reqs[r] EXCEPT !.kind = "quizProgress", !.token = token] IN
       Becomes(r,
         IF authenticateToken(token) # 0
         THEN Respond(q, ErrorRes(authenticateToken(token)))
         ELSE [q EXCEPT !.pc = "uqp_findQuiz", !.quizId = quizId, !.score = score])
  /\ UNCHANGED <<apiKey, store, varsElse, users>>

\* line 428-454: the quiz is looked up, the score is validated
uqp_findQuiz(r) ==
  LET q == reqs[r] IN
  /\ q.pc = "uqp_findQuiz"
  /\ Becomes(r,
       IF ~\E z \in quizzes : z.id = q.quizId
       THEN Respond(q, ErrorRes(404))
       ELSE [q EXCEPT !.pc = "uqp_upsertProgress",
                      !.lessonId = (CHOOSE z \in quizzes : z.id = q.quizId).lessonId,
                      !.validated = validatedScore(q.score)])
  /\ UNCHANGED <<apiKey, store, varsElse, users>>

\* line 457-475: prisma.learningProgress.upsert
uqp_upsertProgress(r) ==
  LET q == reqs[r] IN
  /\ q.pc = "uqp_upsertProgress"
  /\ progress' = ProgressUpsert(r, q.lessonId, q.validated, TRUE)
  /\ Becomes(r, [q EXCEPT !.pc = "uqp_upsertLeaderboard"])
  /\ UNCHANGED <<apiKey, lessons, quizzes, conversations, exchanges,
                 pronunciations, varsElse, users>>

\* line 480-521: prisma.leaderboardEntry.upsert and the response
uqp_upsertLeaderboard(r) ==
  LET q == reqs[r] IN
  /\ q.pc = "uqp_upsertLeaderboard"
  /\ leaderboard' = LeaderboardUpsert(q.quizId, q.validated)
  /\ Becomes(r, Respond([q EXCEPT !.lbWrite = "stored"],
       [status |-> 200, success |-> TRUE,
        data |-> [lessonId |-> q.lessonId, score |-> q.validated, completed |-> TRUE]]))
  /\ UNCHANGED <<raw, parsed, ppc, pron, apiKey, store, users>>

(*------------------------- addLeaderboardEntry ---------------------------*)
\* POST /api/leaderboard/entry: authenticateToken, then
\* leaderboard.controllers.ts line 40-44
addLeaderboardEntry(r) ==
  /\ Arrives(r)
  /\ \E token \in AuthTokens, quizId \in {UnknownQuiz} \cup {z.id : z \in quizzes},
        score \in ScoreValues :
       LET q == [reqs[r] EXCEPT !.kind = "leaderboardEntry", !.token = token] IN
       Becomes(r,
         IF authenticateToken(token) # 0
         THEN Respond(q, ErrorRes(authenticateToken(token)))
         ELSE [q EXCEPT !.pc = "ale_findQuiz", !.quizId = quizId, !.score = score])
  /\ UNCHANGED <<apiKey, store, varsElse, users>>

\* line 44-66: the quiz is looked up, the score is validated
ale_findQuiz(r) ==
  LET q == reqs[r] IN
  /\ q.pc = "ale_findQuiz"
  /\ Becomes(r,
       IF ~\E z \in quizzes : z.id = q.quizId
       THEN Respond(q, ErrorRes(404))
       ELSE [q EXCEPT !.pc = "ale_transaction",
                      !.lessonId = (CHOOSE z \in quizzes : z.id = q.quizId).lessonId,
                      !.validated = validatedScore(q.score)])
  /\ UNCHANGED <<apiKey, store, varsElse, users>>

\* line 69-116: prisma.$transaction: the entry of the user and the quiz is
\* updated, or it is created
ale_transaction(r) ==
  LET q == reqs[r] IN
  /\ q.pc = "ale_transaction"
  /\ leaderboard' = LeaderboardUpsert(q.quizId, q.validated)
  /\ Becomes(r, [q EXCEPT !.lbWrite = "stored", !.pc = "ale_upsertProgress"])
  /\ UNCHANGED <<raw, parsed, ppc, pron, apiKey, store, users>>

\* line 119-148: prisma.learningProgress.upsert and the response
ale_upsertProgress(r) ==
  LET q == reqs[r] IN
  /\ q.pc = "ale_upsertProgress"
  /\ progress' = ProgressUpsert(r, q.lessonId, q.validated, TRUE)
  /\ Becomes(r, Respond(q,
       [status |-> 200, success |-> TRUE,
        data |-> [quizId |-> q.quizId, score |-> q.validated]]))
  /\ UNCHANGED <<apiKey, lessons, quizzes, conversations, exchanges,
                 pronunciations, varsElse, users>>

NextProgress ==
  \E r \in Reqs :
    \/ generateLesson(r)
    \/ gl_generate(r)
    \/ gl_createLesson(r)
    \/ qi_findLesson(r)
    \/ qi_generate(r)
    \/ qi_create(r)
    \/ gl_createProgress(r)
    \/ updateLessonProgress(r)
    \/ ulp_findLesson(r)
    \/ ulp_upsert(r)
    \/ updateQuizProgress(r)
    \/ uqp_findQuiz(r)
    \/ uqp_upsertProgress(r)
    \/ uqp_upsertLeaderboard(r)
    \/ addLeaderboardEntry(r)
    \/ ale_findQuiz(r)
    \/ ale_transaction(r)
    \/ ale_upsertProgress(r)

SpecProgress == InitProgress /\ [][NextProgress]_vars

(***************************************************************************)
(* SpecFault: the same requests with a database that may fail.  Each       *)
(* awaited prisma call of a handler step either settles as in Spec or      *)
(* rejects (connection lost, constraint violated); a rejection is thrown   *)
(* at the await and reaches the nearest enclosing catch block.             *)
(***************************************************************************)
\* a handler whose outer catch block sends nothing
Caught_Silent(q) == [q EXCEPT !.pc = "gone"]

\* the catch block of a handler's outer try (line 225-228, 265-268, 396-402,
\* 457-463, 547-553): res.status(500).json(...)
Caught(q) == Respond(q, ErrorRes(500))

\* prisma.conversationExchange.create awaited outside a try block of its own
ExchangeWriteFailed_Uncaught(q) == Respond(q, ErrorRes(500))

\* line 449-456: the catch around prisma.conversationExchange.create logs the
\* error; the response of line 453 follows
ExchangeWriteFailed(q) ==
  Respond(q, [status |-> 200, success |-> TRUE, data |-> [response |-> q.content]])

\* line 191: prisma.lesson.create rejects
gl_createLesson_rejects(r) ==
  LET q == reqs[r] IN
  /\ q.pc = "gl_createLesson"
  /\ Becomes(r, Caught([q EXCEPT !.dbError = "lesson.create"]))
  /\ UNCHANGED <<apiKey, store, varsElse, users>>

\* line 207: prisma.learningProgress.create rejects
gl_createProgress_rejects(r) ==
  LET q == reqs[r] IN
  /\ q.pc = "gl_createProgress"
  /\ Becomes(r, Caught([q EXCEPT !.dbError = "learningProgress.create"]))
  /\ UNCHANGED <<apiKey, store, varsElse, users>>

\* line 240: prisma.lesson.findUnique rejects
gq_findLesson_rejects(r) ==
  LET q == reqs[r] IN
  /\ q.pc = "gq_findLesson"
  /\ Becomes(r, Caught([q EXCEPT !.dbError = "lesson.findUnique"]))
  /\ UNCHANGED <<apiKey, store, varsElse, users>>

\* line 272: prisma.lesson.findUnique rejects in generateQuizInternal
qi_findLesson_rejects(r) ==
  LET q == reqs[r] IN
  /\ q.pc = "qi_findLesson"
  /\ Becomes(r, QuizInternalThrew([q EXCEPT !.dbError = "lesson.findUnique"]))
  /\ UNCHANGED <<apiKey, store, varsElse, users>>

\* line 310: prisma.quiz.create rejects for another reason than the index
qi_create_rejects(r) ==
  LET q == reqs[r] IN
  /\ q.pc = "qi_create"
  /\ Becomes(r, QuizInternalThrew([q EXCEPT !.qWrite = "failed",
                                            !.dbError = "quiz.create"]))
  /\ UNCHANGED <<apiKey, store, varsElse, users>>

\* line 374: prisma.conversationPractice.create rejects
cp_create_rejects(r) ==
  LET q == reqs[r] IN
  /\ q.pc = "cp_create"
  /\ Becomes(r, Caught([q EXCEPT !.dbError = "conversationPractice.create"]))
  /\ UNCHANGED <<apiKey, store, varsElse, users>>

\* line 441: prisma.conversationExchange.create rejects
cr_saveExchange_rejects(r) ==
  LET q == reqs[r] IN
  /\ q.pc = "cr_saveExchange"
  /\ Becomes(r, ExchangeWriteFailed([q EXCEPT !.dbError = "conversationExchange.create"]))
  /\ UNCHANGED <<apiKey, store, varsElse, users>>

\* line 537: prisma.pronunciationFeedback.create rejects
pf_create_rejects(r) ==
  LET q == reqs[r] IN
  /\ q.pc = "pf_create"
  /\ Becomes(r, Caught([q EXCEPT !.dbError = "pronunciationFeedback.create"]))
  /\ UNCHANGED <<apiKey, store, varsElse, users>>

\* a prisma call of request r rejects
Rejects(r) ==
  \/ gl_createLesson_rejects(r)
  \/ gl_createProgress_rejects(r)
  \/ gq_findLesson_rejects(r)
  \/ qi_findLesson_rejects(r)
  \/ qi_create_rejects(r)
  \/ cp_create_rejects(r)
  \/ cr_saveExchange_rejects(r)
  \/ pf_create_rejects(r)

NextFault == Next \/ \E r \in Reqs : Rejects(r)

SpecFault == Init /\ [][NextFault]_vars

\* model.generateContent of the call that request r waits for rejects
ModelRejects(r) ==
  \/ gl_settles(r, Upstream)
  \/ qi_settles(r, Upstream)
  \/ cp_settles(r, Upstream)
  \/ cr_settles(r, Upstream)
  \/ pf_settles(r, Upstream, NotNum("undefined"))

\* the awaited call that request r waits for settles: it rejects, or it
\* resolves
Settles(r) ==
  \/ Rejects(r)
  \/ ModelRejects(r)
  \/ gl_generate(r)
  \/ gl_createLesson(r)
  \/ gl_createProgress(r)
  \/ gq_findLesson(r)
  \/ qi_findLesson(r)
  \/ qi_generate(r)
  \/ qi_create(r)
  \/ cp_generate(r)
  \/ cp_create(r)
  \/ cr_generate(r)
  \/ cr_saveExchange(r)
  \/ pf_generate(r)
  \/ pf_create(r)

\* SpecLive: SpecFault where every awaited model call and prisma call
\* settles in the end (the promise a handler awaits is resolved or rejected
\* by the client library; the event loop then resumes the handler)
SpecLive == SpecFault /\ \A r \in Reqs : WF_vars(Settles(r))

(***************************************************************************)
(* The auth routes (/api/auth): signup, login, and behind authenticateToken *)
(* logout, getProfile, updateProfile, changePassword, resend-verification. *)
(* The access token names the user SeedUser.                               *)
(***************************************************************************)
Emails == {"", SeedEmail, "bea@test"}

Passwords == {"", "old", "new"}

\* !x of a member of req.body: undefined or the empty string
Falsy(x) == x = Missing \/ x = ""

UserByEmail(email) == {u \in users : u.email = email}

\* the unique index User_email_key: prisma.user.create rejects a second
\* user of an email
UserCreateRejected(email) == UserByEmail(email) # {}

(*------------------------- signup ----------------------------------------*)
\* POST /register, line 11-21
signup(r) ==
  /\ Arrives(r)
  /\ \E email \in Emails, password \in Passwords, fullName \in {"", "Bea"} :
       LET q == [reqs[r] EXCEPT !.kind = "signup", !.email = email,
                                !.password = password, !.fullName = fullName]
       IN
       Becomes(r,
         IF Falsy(email) \/ Falsy(fullName) \/ Falsy(password)
         THEN Respond(q, ErrorRes(400))
         ELSE [q EXCEPT !.pc = "su_findUser"])
  /\ UNCHANGED <<apiKey, store, varsElse, users>>

\* line 21-34: prisma.user.findUnique by email; the password is hashed
su_findUser(r) ==
  LET q == reqs[r] IN
  /\ q.pc = "su_findUser"
  /\ Becomes(r,
       IF UserByEmail(q.email) # {}
       THEN Respond(q, ErrorRes(400))
       ELSE [q EXCEPT !.pc = "su_create"])
  /\ UNCHANGED <<apiKey, store, varsElse, users>>

\* line 37-60: prisma.user.create; its throw reaches line 62-67
su_create(r) ==
  LET q == reqs[r] IN
  /\ q.pc = "su_create"
  /\ IF UserCreateRejected(q.email)
     THEN /\ Becomes(r, Respond(q, ErrorRes(500)))
          /\ UNCHANGED users
     ELSE /\ users' = users \cup
               {[id |-> r, email |-> q.email, password |-> Hash(q.password),
                 fullName |-> q.fullName, setBy |-> r]}
          /\ Becomes(r, Respond(q,
               [status |-> 201, success |-> TRUE,
                data |-> [user |-> [id |-> r, email |-> q.email]]]))
  /\ UNCHANGED <<apiKey, store, varsElse>>

(*------------------------- login -----------------------------------------*)
\* the request that last wrote the password of the user of an email
LastSetter(email) ==
  IF UserByEmail(email) = {} THEN 0
  ELSE (CHOOSE u \in users : u.email = email).setBy

\* POST /login, line 74-83
login(r) ==
  /\ Arrives(r)
  /\ \E email \in Emails, password \in Passwords :
       LET q == [reqs[r] EXCEPT !.kind = "login", !.email = email,
                                !.password = password,
                                !.seen = LastSetter(email)]
       IN
       Becomes(r,
         IF Falsy(email) \/ Falsy(password)
         THEN Respond(q, ErrorRes(400))
         ELSE [q EXCEPT !.pc = "lg_findUser"])
  /\ UNCHANGED <<apiKey, store, varsElse, users>>

\* line 83-120: prisma.user.findUnique by email, bcrypt.compare with the
\* row that was read
lg_findUser(r) ==
  LET q == [reqs[r] EXCEPT !.seen = LastSetter(reqs[r].email)] IN
  /\ reqs[r].pc = "lg_findUser"
  /\ Becomes(r,
       IF UserByEmail(q.email) = {}
       THEN Respond(q, ErrorRes(401))
       ELSE LET user == CHOOSE u \in users : u.email = q.email IN
            IF ~Compare(q.password, user.password)
            THEN Respond(q, ErrorRes(401))
            ELSE Respond(q,
                   [status |-> 200, success |-> TRUE,
                    data |-> [user |-> [id |-> user.id, email |-> user.email]]]))
  /\ UNCHANGED <<apiKey, store, varsElse, users>>

(*------------------------- the protected routes --------------------------*)
\* POST /logout, and POST /resend-verification (answered 501)
logout(r) ==
  /\ Arrives(r)
  /\ \E token \in AuthTokens, route \in {"logout", "resend"} :
       LET q == [reqs[r] EXCEPT !.kind = route, !.token = token] IN
       Becomes(r,
         IF authenticateToken(token) # 0
         THEN Respond(q, ErrorRes(authenticateToken(token)))
         ELSE IF route = "logout"
              THEN Respond(q, [status |-> 200, success |-> TRUE])
              ELSE Respond(q, ErrorRes(501)))
  /\ UNCHANGED <<apiKey, store, varsElse, users>>

\* GET /me, line 132-139: req.user is the row authenticateToken read
getProfile(r) ==
  /\ Arrives(r)
  /\ \E token \in AuthTokens :
       LET q == [reqs[r] EXCEPT !.kind = "getProfile", !.token = token] IN
       Becomes(r,
         IF authenticateToken(token) # 0
         THEN Respond(q, ErrorRes(authenticateToken(token)))
         ELSE Respond(q,
                [status |-> 200, success |-> TRUE,
                 data |-> [user |-> [id |-> SeedUser, email |-> SeedEmail]]]))
  /\ UNCHANGED <<apiKey, store, varsElse, users>>

\* PUT /me, line 152-155
updateProfile(r) ==
  /\ Arrives(r)
  /\ \E token \in AuthTokens, fullName \in {Missing, "Bea"} :
       LET q == [reqs[r] EXCEPT !.kind = "updateProfile", !.token = token] IN
       Becomes(r,
         IF authenticateToken(token) # 0
         THEN Respond(q, ErrorRes(authenticateToken(token)))
         ELSE [q EXCEPT !.pc = "up_update", !.fullName = fullName])
  /\ UNCHANGED <<apiKey, store, varsElse, users>>

\* line 155-173: prisma.user.update; an undefined fullName changes nothing
up_update(r) ==
  LET q == reqs[r] IN
  /\ q.pc = "up_update"
  /\ users' = {IF u.id = SeedUser /\ q.fullName # Missing
               THEN [u EXCEPT !.fullName = q.fullName] ELSE u : u \in users}
  /\ Becomes(r, Respond(q,
       [status |-> 200, success |-> TRUE,
        data |-> [user |-> [id |-> SeedUser, email |-> SeedEmail]]]))
  /\ UNCHANGED <<apiKey, store, varsElse>>

(*------------------------- changePassword --------------------------------*)
\* PUT /me/password, line 186-190
changePassword(r) ==
  /\ Arrives(r)
  /\ \E token \in AuthTokens, currentPassword \in Passwords \cup {Missing},
        newPassword \in Passwords \cup {Missing} :
       LET q == [reqs[r] EXCEPT !.kind = "changePassword", !.token = token] IN
       Becomes(r,
         IF authenticateToken(token) # 0
         THEN Respond(q, ErrorRes(authenticateToken(token)))
         ELSE [q EXCEPT !.pc = "chp_findUser", !.password = currentPassword,
                        !.newPassword = newPassword])
  /\ UNCHANGED <<apiKey, store, varsElse, users>>

\* line 190-212: prisma.user.findUnique by id, bcrypt.compare with the row
\* that was read, bcrypt.hash of the new password; bcrypt rejects an
\* argument that is no string, which reaches line 224-229
chp_findUser(r) ==
  LET q == reqs[r] IN
  /\ q.pc = "chp_findUser"
  /\ Becomes(r,
       IF ~\E u \in users : u.id = SeedUser
       THEN Respond(q, ErrorRes(404))
       ELSE LET user == CHOOSE u \in users : u.id = SeedUser IN
            IF q.password = Missing
            THEN Respond([q EXCEPT !.compared = "error"], ErrorRes(500))
            ELSE IF ~Compare(q.password, user.password)
            THEN Respond([q EXCEPT !.compared = "mismatch"], ErrorRes(401))
            ELSE IF q.newPassword = Missing
            THEN Respond([q EXCEPT !.compared = "match"], ErrorRes(500))
            ELSE [q EXCEPT !.compared = "match", !.pc = "chp_update"])
  /\ UNCHANGED <<apiKey, store, varsElse, users>>

\* line 215-223: prisma.user.update of the password
chp_update(r) ==
  LET q == reqs[r] IN
  /\ q.pc = "chp_update"
  /\ users' = {IF u.id = SeedUser
               THEN [u EXCEPT !.password = Hash(q.newPassword), !.setBy = r]
               ELSE u : u \in users}
  /\ Becomes(r, Respond(q, [status |-> 200, success |-> TRUE]))
  /\ UNCHANGED <<apiKey, store, varsElse>>

NextAuth ==
  \E r \in Reqs :
    \/ signup(r)
    \/ su_findUser(r)
    \/ su_create(r)
    \/ login(r)
    \/ lg_findUser(r)
    \/ logout(r)
    \/ getProfile(r)
    \/ updateProfile(r)
    \/ up_update(r)
    \/ changePassword(r)
    \/ chp_findUser(r)
    \/ chp_update(r)

\* the auth routes alone
SpecAuth == Init /\ [][NextAuth]_vars

\* the auth routes and the AI-lessons routes of one server
NextApp == Next \/ NextAuth

SpecApp == Init /\ [][NextApp]_vars

(***************************************************************************)
(* Properties of the handlers                                              *)
(***************************************************************************)
Done(r) == reqs[r].pc = "done"

\* the request called callGeminiJSON and it threw before or at the model
InvocationFailed(why) == why \in {"config", "upstream"}

\* generateQuizInternal asked the model / called prisma.quiz.create
QuizModelInvoked(q) ==
  q.pc = "qi_generate" \/ q.qSource = "model" \/ q.qFailure \in {"upstream", "extraction"}

QuizWriteAttempted(q) == q.qWrite # "none"

\* C1 as claimed: a generate-quiz request for a lesson that already has a
\* stored quiz is answered with success carrying that quiz's id, lessonId and
\* questions, without a model invocation and without a Quiz write.
C1_AsClaimed ==
  \A r \in Reqs :
    (reqs[r].kind = "quiz" /\ reqs[r].quizExisted /\ Done(r)) =>
      /\ reqs[r].res.status = 200
      /\ \E z \in quizzes :
           /\ z.lessonId = reqs[r].lessonId
           /\ reqs[r].res.quiz =
                [id |-> z.id, lessonId |-> z.lessonId, questions |-> z.questions]
      /\ reqs[r].calls = 0
      /\ ~QuizWriteAttempted(reqs[r])

\* C2 as claimed: when the model invocation of a valid generate-lesson
\* request fails upstream, no Lesson is persisted, no cascade quiz generation
\* is attempted and the response is 500.
C2_AsClaimed ==
  \A r \in Reqs :
    (reqs[r].kind = "lesson" /\ reqs[r].failure = "upstream") =>
      /\ ~\E l \in lessons : l.id = r
      /\ reqs[r].pc \notin {"qi_findLesson", "qi_generate", "qi_create"}
      /\ ~QuizModelInvoked(reqs[r])
      /\ ~QuizWriteAttempted(reqs[r])
      /\ Done(r) => reqs[r].res.status = 500

\* C3: at most one Quiz is stored per lesson id under every interleaving; of
\* the requests that called prisma.quiz.create for one lesson exactly one
\* write is stored, and every other was rejected by the unique index.
C3_OneQuizPerLesson ==
  /\ \A z1, z2 \in quizzes : z1.lessonId = z2.lessonId => z1 = z2
  /\ \A r \in Reqs :
       /\ reqs[r].qWrite = "stored" =>
            [id |-> r, lessonId |-> reqs[r].lessonId,
             questions |-> reqs[r].quizContent] \in quizzes
       /\ reqs[r].qWrite = "rejected" =>
            /\ ~\E z \in quizzes : z.id = r
            /\ \E o \in Reqs \ {r} :
                 /\ reqs[o].lessonId = reqs[r].lessonId
                 /\ reqs[o].qWrite = "stored"
  /\ \A r1, r2 \in Reqs :
       (/\ reqs[r1].qWrite = "stored"
        /\ reqs[r2].qWrite = "stored"
        /\ reqs[r1].lessonId = reqs[r2].lessonId) => r1 = r2

\* C3 witness: two generate-quiz requests found the same lesson without a
\* quiz and both wrote; one write is stored, the other was rejected
C3_Witness ==
  \E r1, r2 \in Reqs :
    /\ reqs[r1].kind = "quiz" /\ reqs[r2].kind = "quiz"
    /\ reqs[r1].lessonId = reqs[r2].lessonId
    /\ ~reqs[r1].quizExisted /\ ~reqs[r2].quizExisted
    /\ reqs[r1].qWrite = "stored"
    /\ reqs[r2].qWrite = "rejected"

\* C4 as claimed: a generation request ends without success only when the
\* model invocation failed, a referenced language or lesson does not exist,
\* or a required field or the caller identity is missing; in particular a
\* generate-quiz request that found its lesson without a quiz and whose model
\* call answered is not answered with a server error.
C4_AsClaimed ==
  \A r \in Reqs :
    (Done(r) /\ reqs[r].res.status # 200) =>
      \/ reqs[r].res.status \in {400, 401, 403, 404}
      \/ InvocationFailed(reqs[r].failure)
      \/ InvocationFailed(reqs[r].qFailure)

\* C5: in generate-lesson a failure of the cascade quiz step (the model
\* failed, the extraction failed, the quiz write was rejected) leaves the
\* Lesson persisted and the response is the success carrying the lesson.
C5_CascadeNeverFailsLesson ==
  \A r \in Reqs :
    (reqs[r].kind = "lesson" /\ (reqs[r].qFailure # "none" \/ reqs[r].qWrite = "rejected")) =>
      /\ [id |-> r, languageId |-> reqs[r].languageId, content |-> reqs[r].content] \in lessons
      /\ reqs[r].pc \in {"qi_create", "gl_createProgress", "done"}
      /\ Done(r) =>
           /\ reqs[r].res.status = 200
           /\ reqs[r].res.lesson = [id |-> r, content |-> reqs[r].content]

\* C5 witness: a lesson request whose cascade quiz write was rejected has
\* been answered
C5_Witness ==
  \E r \in Reqs :
    /\ reqs[r].kind = "lesson"
    /\ reqs[r].qWrite = "rejected"
    /\ Done(r)

\* C6 as claimed: when a quiz of the new lesson already exists as the cascade
\* step of generate-lesson begins, the step is skipped: the model is not
\* asked for a quiz and no Quiz write is attempted.
C6_AsClaimed ==
  \A r \in Reqs :
    (reqs[r].kind = "lesson" /\ reqs[r].quizExisted) =>
      /\ ~QuizModelInvoked(reqs[r])
      /\ ~QuizWriteAttempted(reqs[r])

\* the fallback document of a kind of request
FallbackOf(kind) ==
  IF kind = "lesson" THEN LessonFallback
  ELSE IF kind = "quiz" THEN QuizFallback
  ELSE IF kind = "conversation" THEN ConversationFallback
  ELSE PronunciationFallback

\* the content a success response carries / the content the request stored
Carried(q) ==
  IF q.kind = "lesson" THEN q.res.lesson.content
  ELSE IF q.kind = "quiz" THEN q.res.quiz.questions
  ELSE IF q.kind = "conversation" THEN q.res.conversation.content
  ELSE q.res.feedback

Stored(r) ==
  IF reqs[r].kind = "lesson" THEN {l.content : l \in {x \in lessons : x.id = r}}
  ELSE IF reqs[r].kind = "quiz" THEN {z.questions : z \in {x \in quizzes : x.id = r}}
  ELSE IF reqs[r].kind = "conversation"
       THEN {c.content : c \in {x \in conversations : x.id = r}}
  ELSE IF reqs[r].kind = "pronunciation"
       THEN {f.feedback : f \in {x \in pronunciations : x.id = r}}
  ELSE {e.aiResponse : e \in {x \in exchanges : x.id = r}}

\* why the model call for the request's own content threw, and where that
\* content came from
MainFailure(q) == IF q.kind = "quiz" THEN q.qFailure ELSE q.failure

MainSource(q) == IF q.kind = "quiz" THEN q.qSource ELSE q.source

\* C7 as claimed: for generate-lesson, generate-quiz, conversation-prompt and
\* pronunciation-feedback, when no strategy extracts JSON from the model's
\* text the request ends with success carrying the kind's fallback content,
\* which is what was persisted, and never with an error status.
C7_AsClaimed ==
  \A r \in Reqs :
    (/\ reqs[r].kind \in {"lesson", "quiz", "conversation", "pronunciation"}
     /\ MainFailure(reqs[r]) = "extraction"
     /\ Done(r)) =>
      /\ reqs[r].res.status = 200
      /\ Carried(reqs[r]) = FallbackOf(reqs[r].kind)
      /\ Stored(r) = {FallbackOf(reqs[r].kind)}

\* C8 as claimed: every success response with generated content carries a
\* source marker, "model" for content extracted from the model's output and
\* "fallback" for substituted fallback content.
C8_AsClaimed ==
  \A r \in Reqs :
    (Done(r) /\ reqs[r].res.status = 200 /\ MainSource(reqs[r]) # "none") =>
      /\ "source" \in DOMAIN reqs[r].res
      /\ reqs[r].res.source = MainSource(reqs[r])

\* C9 as claimed: for generate-quiz, conversation-prompt and
\* pronunciation-feedback a failed model invocation (no credential, upstream
\* error) ends in a server error with nothing persisted, and no fallback
\* content is substituted for it.
C9_AsClaimed ==
  \A r \in Reqs :
    (/\ reqs[r].kind \in {"quiz", "conversation", "pronunciation"}
     /\ InvocationFailed(MainFailure(reqs[r]))) =>
      /\ MainSource(reqs[r]) # "fallback"
      /\ Stored(r) = {}
      /\ Done(r) => reqs[r].res.status = 500

(***************************************************************************)
(* The shapes of raw text the extraction contract speaks of: a JSON        *)
(* object or array d with the text before it (pre) and after it (post)     *)
(***************************************************************************)
AllIn(s, toks) == \A i \in 1..Len(s) : s[i] \in toks

\* d is the text of one JSON object or array
IsStructure(d) ==
  /\ d # <<>>
  /\ d[1] \in {"{", "["}
  /\ JsonParse(d).ok

\* nothing but white space around the structure
IsBare(pre, post) == AllIn(pre, {"w"}) /\ AllIn(post, {"w"})

\* an opening fence whose language tag is one of tags, or that has none
IsFenceOpen(pre, tags) ==
  LET f == TrimStart(pre) IN
  /\ f # <<>>
  /\ f[1] = "F"
  /\ \/ AllIn(Tail(f), {"w"})
     \/ Len(f) >= 2 /\ f[2] \in tags /\ AllIn(SubSeq(f, 3, Len(f)), {"w"})

IsFenceClose(post) == Trim(post) = <<"F">>

IsFenced(pre, post, tags) == IsFenceOpen(pre, tags) /\ IsFenceClose(post)

\* words (and white space) around the structure, at least one word
IsProse(pre, post) ==
  /\ AllIn(pre \o post, {"p", "w"})
  /\ \E i \in 1..Len(pre \o post) : (pre \o post)[i] = "p"

\* the ways of cutting raw into pre, a structure d, and post
Cuts ==
  {c \in (1..Len(raw)) \X (1..Len(raw)) :
     c[1] <= c[2] /\ IsStructure(SubSeq(raw, c[1], c[2]))}

CutPre(c) == SubSeq(raw, 1, c[1] - 1)

CutDoc(c) == SubSeq(raw, c[1], c[2])

CutPost(c) == SubSeq(raw, c[2] + 1, Len(raw))

Returned(d) == parsed.ok /\ parsed.val = JsonParse(d).val

InnerObject(d) ==
  SpanMatch(d, "{", "}").found /\ JsonParse(SpanMatch(d, "{", "}").text).ok

C11_AsClaimed ==
  ppc = "parsed" =>
    /\ parsed.ok => parsed.val.t \in {"obj", "arr"}
    /\ Cuts = {} => ~parsed.ok

\* the four strategies of safeJsonParse, each taken alone on a text
Strategy1(text) == JsonParse(Trim(text))

Strategy2(text) == JsonParse(Cleaned(Trim(text)))

Strategy3(text) ==
  LET m == SpanMatch(Cleaned(Trim(text)), "{", "}") IN
  IF m.found THEN JsonParse(m.text) ELSE [ok |-> FALSE, val |-> NoValue]

Strategy4(text) ==
  LET m == SpanMatch(Cleaned(Trim(text)), "[", "]") IN
  IF m.found THEN JsonParse(m.text) ELSE [ok |-> FALSE, val |-> NoValue]

\* C20: safeJsonParse returns what the first of its four strategies that
\* parses returns (direct parse of the trimmed text, parse without the fence
\* markers, parse of the span from the first "{" to the last "}", parse of
\* the span from the first "[" to the last "]"); a strategy that fails to
\* parse only passes on to the next, and the extraction error is thrown
\* exactly when all four have failed.
C20_FirstStrategyWins ==
  ppc = "parsed" =>
    LET s1 == Strategy1(raw)
        s2 == Strategy2(raw)
        s3 == Strategy3(raw)
        s4 == Strategy4(raw)
    IN IF s1.ok THEN parsed = [ok |-> TRUE, val |-> s1.val, by |-> 1]
       ELSE IF s2.ok THEN parsed = [ok |-> TRUE, val |-> s2.val, by |-> 2]
       ELSE IF s3.ok THEN parsed = [ok |-> TRUE, val |-> s3.val, by |-> 3]
       ELSE IF s4.ok THEN parsed = [ok |-> TRUE, val |-> s4.val, by |-> 4]
       ELSE parsed = Threw

\* C20 witness: the first two strategies failed, the third and the fourth
\* both parse and to different values; the third's value was returned
C20_Witness ==
  /\ ppc = "parsed"
  /\ ~Strategy1(raw).ok /\ ~Strategy2(raw).ok
  /\ Strategy3(raw).ok /\ Strategy4(raw).ok
  /\ Strategy3(raw).val # Strategy4(raw).val
  /\ parsed.val = Strategy3(raw).val

(***************************************************************************)
(* The shapes of the documents.  The members of an object are told apart   *)
(* by their position, in the order of the prompt's schema.                 *)
(***************************************************************************)
\* { vocabulary: [], grammar: "", examples: [], exercises: [], culturalNotes: "" }
IsLessonContent(d) ==
  /\ d.t = "obj"
  /\ Len(d.items) = 5
  /\ d.items[1].t = "arr" /\ d.items[3].t = "arr" /\ d.items[4].t = "arr"
  /\ d.items[2].t = "str" /\ d.items[5].t = "str"

\* { question: "", options: ["", "", "", ""], correctAnswer: 0, explanation: "" }
IsQuestion(x) ==
  /\ x.t = "obj"
  /\ Len(x.items) = 4
  /\ x.items[2].t = "arr" /\ Len(x.items[2].items) = 4
  /\ x.items[3].t = "str"

IsQuiz(d) ==
  /\ d.t = "arr"
  /\ \A i \in 1..Len(d.items) : IsQuestion(d.items[i])

\* C12 as claimed: the lesson content persisted and returned by
\* generate-lesson has vocabulary, examples and exercises as sequences and
\* grammar and culturalNotes as strings, whatever the extracted document held.
C12_AsClaimed ==
  \A r \in Reqs :
    reqs[r].kind = "lesson" =>
      /\ \A l \in lessons : l.id = r => IsLessonContent(l.content)
      /\ (Done(r) /\ reqs[r].res.status = 200) =>
           IsLessonContent(reqs[r].res.lesson.content)

\* C13 as claimed: every question of a quiz stored or returned by
\* generate-quiz or by the lesson cascade has exactly 4 options and a
\* correctAnswer in 0..3; questions of the model that have not are dropped.
C13_AsClaimed ==
  /\ \A z \in quizzes : IsQuiz(z.questions)
  /\ \A r \in Reqs :
       (reqs[r].kind = "quiz" /\ Done(r) /\ reqs[r].res.status = 200) =>
         IsQuiz(reqs[r].res.quiz.questions)

InUnitRange(a) == a.type = "number" /\ 0 <= a.n /\ a.n <= 10

\* C14 as claimed: the accuracy of every pronunciation-feedback success
\* response and of every stored PronunciationFeedback record is a number in
\* [0.0, 1.0], whatever the model returned.
C14_AsClaimed ==
  /\ \A f \in pronunciations : InUnitRange(f.accuracy)
  /\ \A r \in Reqs :
       (reqs[r].kind = "pronunciation" /\ Done(r) /\ reqs[r].res.status = 200) =>
         InUnitRange(reqs[r].res.accuracy)

\* a request's call of model.generateContent is under way or has been made
ModelCalled(q) ==
  \/ q.calls > 0
  \/ q.pc \in {"gl_generate", "qi_generate", "cp_generate", "cr_generate", "pf_generate"}

\* C15: while no credential is configured, callGeminiText and callGeminiJSON
\* throw before model.generateContent: no request ever calls the model.
C15_NoCallWithoutKey ==
  ~apiKey => \A r \in Reqs : ~ModelCalled(reqs[r])

\* C15 witness: without a credential a conversation-response request ended
\* with the thrown error and a JSON request went on with its fallback
C15_Witness ==
  /\ ~apiKey
  /\ \E r1, r2 \in Reqs :
       /\ reqs[r1].kind = "reply" /\ reqs[r1].failure = "config" /\ Done(r1)
       /\ reqs[r2].kind \in {"lesson", "quiz", "conversation", "pronunciation"}
       /\ MainFailure(reqs[r2]) = "config"

\* the rows of the tables that request r created
RowsOf(r) ==
  {x \in lessons \cup quizzes \cup progress \cup conversations \cup exchanges
         \cup pronunciations : x.id = r}

\* C19: in generate-lesson the cascade quiz step (its lesson lookup, its
\* model call, its Quiz write) begins only when the Lesson row is stored, and
\* every stored Quiz belongs to a stored lesson.
C19_QuizAfterLesson ==
  /\ \A z \in quizzes : \E l \in lessons : l.id = z.lessonId
  /\ \A r \in Reqs :
       (/\ reqs[r].kind = "lesson"
        /\ \/ reqs[r].pc \in {"qi_findLesson", "qi_generate", "qi_create"}
           \/ QuizModelInvoked(reqs[r])
           \/ reqs[r].qSource # "none"
           \/ QuizWriteAttempted(reqs[r])) =>
         \E l \in lessons : l.id = r /\ reqs[r].lessonId = r

\* C19 witness: the cascade of a lesson request stored the quiz of the
\* lesson the request created
C19_Witness ==
  \E r \in Reqs :
    /\ reqs[r].kind = "lesson"
    /\ reqs[r].qWrite = "stored"
    /\ \E z \in quizzes : z.id = r /\ z.lessonId = r
    /\ \E l \in lessons : l.id = r

\* the routes that are mounted behind authenticateToken
ProtectedKinds ==
  {"lesson", "quiz", "content", "conversation", "reply", "pronunciation",
   "logout", "resend", "getProfile", "updateProfile", "changePassword"}

\* C16: a request to an AI-lessons endpoint or to a protected auth route that
\* carries no access token is answered 401 at once; its handler calls no
\* model and writes no row.
C16_NoTokenNoEffect ==
  \A r \in Reqs :
    (reqs[r].kind \in ProtectedKinds /\ reqs[r].token = "none") =>
      /\ Done(r)
      /\ reqs[r].res = ErrorRes(401)
      /\ ~ModelCalled(reqs[r])
      /\ ~QuizWriteAttempted(reqs[r])
      /\ RowsOf(r) = {}
      /\ \A u \in users : u.id # r /\ u.setBy # r

\* C16 witness: a generate-lesson request and a changePassword request, both
\* without a token, have been answered, with the tables as they were
C16_Witness ==
  \E r1, r2 \in Reqs :
    /\ reqs[r1].kind = "lesson" /\ reqs[r1].token = "none" /\ Done(r1)
    /\ reqs[r2].kind = "changePassword" /\ reqs[r2].token = "none" /\ Done(r2)
    /\ lessons = {l \in lessons : l.id = SeedLesson}
    /\ users = InitUsers

\* C17 as claimed: no two User rows share an email, and a registration whose
\* email belongs to a user, also to one that a concurrent registration has
\* just created, is rejected with 400 (or 409) and creates no user.
C17_AsClaimed ==
  /\ \A u1, u2 \in users : u1.email = u2.email => u1 = u2
  /\ \A r \in Reqs :
       (/\ reqs[r].kind = "signup"
        /\ Done(r)
        /\ \E u \in users : u.email = reqs[r].email /\ u.id # r) =>
         /\ reqs[r].res.status \in {400, 409}
         /\ ~\E u \in users : u.id = r

\* C18 as claimed: a login with the user's email and the new password, decided
\* on the password that a successful changePassword wrote, succeeds; a
\* changePassword whose current password is incorrect is answered 401 or 403
\* and writes no password.
C18_AsClaimed ==
  /\ \A c, l \in Reqs :
       (/\ reqs[c].kind = "changePassword"
        /\ reqs[c].compared = "match"
        /\ Done(c) /\ reqs[c].res.status = 200
        /\ reqs[l].kind = "login"
        /\ Done(l)
        /\ reqs[l].email = SeedEmail
        /\ reqs[l].password = reqs[c].newPassword
        /\ reqs[l].seen = c) =>
         reqs[l].res.status = 200
  /\ \A c \in Reqs :
       (reqs[c].kind = "changePassword" /\ reqs[c].compared = "mismatch") =>
         /\ Done(c)
         /\ reqs[c].res.status \in {401, 403}
         /\ \A u \in users : u.setBy # c

\* C21: no handler asks the model again after a call that failed or
\* succeeded: a generate-quiz, conversation-prompt, conversation-response or
\* pronunciation-feedback request calls model.generateContent at most once, a
\* generate-lesson request at most twice (the lesson, then the cascade quiz),
\* and the other routes never.
C21_NoRetry ==
  \A r \in Reqs :
    reqs[r].calls <=
      IF reqs[r].kind = "lesson" THEN 2
      ELSE IF reqs[r].kind \in {"quiz", "conversation", "reply", "pronunciation"} THEN 1
      ELSE 0

\* C21 witness: a generate-lesson request whose two calls both failed
\* upstream has been answered, and a conversation-response request whose one
\* call failed has been answered
C21_Witness ==
  \E r1, r2 \in Reqs :
    /\ reqs[r1].kind = "lesson" /\ Done(r1) /\ reqs[r1].calls = 2
    /\ reqs[r1].failure = "upstream" /\ reqs[r1].qFailure = "upstream"
    /\ reqs[r2].kind = "reply" /\ Done(r2) /\ reqs[r2].calls = 1
    /\ reqs[r2].failure = "upstream"

\* C28: a stored Quiz is final.  No step of a generation handler removes or
\* changes a Quiz row; a generate-quiz request that finds a quiz of its lesson
\* asks no model, writes no quiz and answers the stored quiz; and all
\* successful generate-quiz responses for one lesson carry the same
\* questions, also when the stored quiz is the empty fallback of a failed
\* generation.
C28_QuizIsFinal ==
  /\ [][\A z \in quizzes : z \in quizzes']_vars
  /\ [](\A r \in Reqs :
          (reqs[r].kind = "quiz" /\ reqs[r].quizExisted) =>
            /\ Done(r)
            /\ reqs[r].calls = 0
            /\ ~QuizWriteAttempted(reqs[r])
            /\ reqs[r].res = QuizRes(QuizOf(reqs[r].lessonId)))
  /\ [](\A r1, r2 \in Reqs :
          (/\ reqs[r1].kind = "quiz" /\ reqs[r2].kind = "quiz"
           /\ reqs[r1].lessonId = reqs[r2].lessonId
           /\ Done(r1) /\ reqs[r1].res.status = 200
           /\ Done(r2) /\ reqs[r2].res.status = 200) =>
            reqs[r1].res.quiz = reqs[r2].res.quiz)

\* C28 witness: a quiz generation failed and stored the empty fallback; a
\* later generate-quiz request for the lesson, with a configured key, was
\* answered with it
C28_Witness ==
  /\ apiKey
  /\ \E r1, r2 \in Reqs :
       /\ reqs[r1].qWrite = "stored" /\ reqs[r1].qFailure = "upstream"
       /\ [id |-> r1, lessonId |-> reqs[r1].lessonId, questions |-> QuizFallback] \in quizzes
       /\ reqs[r2].kind = "quiz" /\ reqs[r2].quizExisted /\ Done(r2)
       /\ reqs[r2].lessonId = reqs[r1].lessonId
       /\ reqs[r2].res.status = 200
       /\ reqs[r2].res.quiz.questions = QuizFallback
       /\ reqs[r2].calls = 0

\* the endpoints that generate content
GenerationKinds == {"lesson", "quiz", "conversation", "reply", "pronunciation"}

\* C24: a generation request that is answered 400, 401 or 404 has called no
\* model and written no row, and the step that answers it leaves every table
\* as it was.
C24_RejectedHasNoEffect ==
  /\ [](\A r \in Reqs :
          (/\ reqs[r].kind \in GenerationKinds
           /\ Done(r)
           /\ reqs[r].res.status \in {400, 401, 404}) =>
            /\ ~ModelCalled(reqs[r])
            /\ ~QuizWriteAttempted(reqs[r])
            /\ reqs[r].source = "none" /\ reqs[r].qSource = "none"
            /\ RowsOf(r) = {})
  /\ [][\A r \in Reqs :
          (/\ reqs[r].pc # "done"
           /\ reqs'[r].pc = "done"
           /\ reqs'[r].kind \in GenerationKinds
           /\ reqs'[r].res.status \in {400, 401, 404}) =>
            /\ store' = store
            /\ users' = users]_vars

\* C24 witness: with a configured key, a request with a token but without a
\* required field was answered 400 and a generate-quiz request for an
\* unknown lesson 404
C24_Witness ==
  /\ apiKey
  /\ \E r1, r2 \in Reqs :
       /\ reqs[r1].kind \in {"lesson", "conversation", "reply", "pronunciation"}
       /\ Done(r1) /\ reqs[r1].token = "ok" /\ reqs[r1].res = ErrorRes(400)
       /\ reqs[r2].kind = "quiz"
       /\ Done(r2) /\ reqs[r2].lessonId = UnknownLesson /\ reqs[r2].res = ErrorRes(404)

\* C29 as claimed: generate-lesson is all-or-nothing.  A generate-lesson
\* request answered with an error status has created no Lesson, no Quiz and
\* no LearningProgress; one answered with success has created exactly one
\* Lesson and one LearningProgress, with score 0 and not completed.
C29_AsClaimed ==
  \A r \in Reqs :
    (reqs[r].kind = "lesson" /\ Done(r)) =>
      IF reqs[r].res.status = 200
      THEN /\ Cardinality({l \in lessons : l.id = r}) = 1
           /\ {p \in progress : p.id = r} =
                {[id |-> r, lessonId |-> r, score |-> 0, completed |-> FALSE]}
      ELSE RowsOf(r) = {}

\* C30: in conversation-response a ConversationExchange write that fails
\* does not change the reply: once callGeminiText answered, the request is
\* answered with success carrying the model's text, whether the exchange was
\* stored or not.
C30_ReplyDespiteWriteFailure ==
  \A r \in Reqs :
    (reqs[r].kind = "reply" /\ reqs[r].source = "model") =>
      /\ reqs[r].content.t = "text"
      /\ reqs[r].content.items \in DocOutcomes \ {Upstream}
      /\ \/ reqs[r].pc = "cr_saveExchange"
         \/ /\ Done(r)
            /\ reqs[r].res =
                 [status |-> 200, success |-> TRUE,
                  data |-> [response |-> reqs[r].content]]
            /\ \/ reqs[r].dbError = "conversationExchange.create"
               \/ [id |-> r, aiResponse |-> reqs[r].content] \in exchanges

\* C30 witness: the model answered a conversation-response request, the
\* write of the exchange was rejected, and the request was answered with the
\* text while no exchange of it is stored
C30_Witness ==
  \E r \in Reqs :
    /\ reqs[r].kind = "reply"
    /\ reqs[r].source = "model"
    /\ reqs[r].dbError = "conversationExchange.create"
    /\ Done(r)
    /\ reqs[r].res.status = 200
    /\ reqs[r].res.data.response = reqs[r].content
    /\ ~\E x \in exchanges : x.id = r

\* C25: when every awaited model call and prisma call settles, every
\* generation request that has arrived is answered; a request is answered
\* with a status once, and nothing of an answered request changes afterwards
\* (no second response).
C25_ExactlyOneResponse ==
  /\ \A r \in Reqs : (reqs[r].pc # "idle") ~> Done(r)
  /\ [](\A r \in Reqs : Done(r) <=> reqs[r].res.status # 0)
  /\ [][\A r \in Reqs : Done(r) => reqs'[r] = reqs[r]]_vars

\* C25 witness: a generate-lesson request whose model call failed and whose
\* last write was rejected has been answered, and so has a generate-quiz
\* request that called the model
C25_Witness ==
  \E r1, r2 \in Reqs :
    /\ reqs[r1].kind = "lesson" /\ reqs[r1].calls = 2
    /\ reqs[r1].failure = "upstream"
    /\ reqs[r1].dbError = "learningProgress.create"
    /\ Done(r1) /\ reqs[r1].res.status = 500
    /\ reqs[r2].kind = "quiz" /\ reqs[r2].calls = 1
    /\ Done(r2) /\ reqs[r2].res.status \in {200, 500}

\* C22: when the feedback block falls back (callGeminiJSON threw, or the
\* document is a scalar or null), the feedback has accuracy 0.7, three
\* suggestions and one phoneme whose sound is the first space-separated word
\* of targetText, or all of targetText when it begins with a space; the
\* response body and the stored row carry this feedback.
C22_FallbackFeedback ==
  (pron.pc \in {"validated", "done"} /\ pron.doc.kind \notin {"object", "array"}) =>
    LET f == pron.feedback
        t == pron.targetText
        w == f.phonemes.v[1].sound
    IN
    /\ f.accuracy = Num(7)
    /\ f.suggestions.type = "array" /\ Len(f.suggestions.v) = 3
    /\ f.phonemes.type = "array" /\ Len(f.phonemes.v) = 1
    /\ IF t[1] = " "
       THEN w = t
       ELSE /\ Len(w) \in 1..Len(t)
            /\ w = SubSeq(t, 1, Len(w))
            /\ \A i \in 1..Len(w) : w[i] # " "
            /\ Len(w) = Len(t) \/ t[Len(w) + 1] = " "
    /\ pron.pc = "done" =>
         /\ pron.body = f
         /\ pron.row = [sentence |-> t, accuracy |-> Num(7), feedback |-> [json |-> f]]

\* C22 witness: callGeminiJSON threw for a target text that begins with a
\* space; the response and the row carry the fallback whose one phoneme has
\* the whole text as its sound
C22_Witness ==
  /\ pron.pc = "done"
  /\ pron.doc.kind = "throws"
  /\ pron.targetText = <<" ", "a">>
  /\ pron.body.phonemes.v[1].sound = <<" ", "a">>
  /\ pron.row.feedback.json = pron.body

\* the four members of a feedback document are as the rules of line 511-516
\* leave them
IsValidFeedback(d) ==
  /\ d.kind = "object"
  /\ d.accuracy.type = "number" /\ d.accuracy.n \in 0..10
  /\ d.feedback.type = "string"
  /\ d.suggestions.type = "array"
  /\ d.phonemes.type = "array"

\* C23: the repair rules are idempotent.  The feedback block applied to the
\* feedback it produced returns it unchanged, and a document that satisfies
\* the rules (accuracy in [0, 1], text feedback, sequence suggestions and
\* phonemes) is returned as it was.  Quiz content has the one rule of line
\* 251/259 (a non-array becomes []), idempotent too; lesson and conversation
\* content have no rule.
C23_NormalizeIdempotent ==
  /\ pron.pc \in {"validated", "done"} =>
       /\ FeedbackOf(pron.feedback, pron.targetText) = pron.feedback
       /\ IsValidFeedback(pron.feedback) \/ pron.feedback.kind = "array"
       /\ IsValidFeedback(pron.doc) => pron.feedback = pron.doc
  /\ \A v \in {JArr(<<>>), JArr(<<JObj(<<JStr>>)>>), JObj(<<JStr>>), JStr} :
       /\ AsArray(AsArray(v)) = AsArray(v)
       /\ v.t = "arr" => AsArray(v) = v

\* C23 witness: a document with an accuracy out of range and suggestions
\* that are no array was repaired, and the rules leave the repaired
\* document as it is
C23_Witness ==
  /\ pron.pc = "validated"
  /\ pron.doc.kind = "object"
  /\ pron.doc.accuracy = Num(11)
  /\ pron.doc.suggestions = Other("string")
  /\ pron.feedback # pron.doc
  /\ pron.feedback.accuracy = Num(7)
  /\ Normalize(pron.feedback) = pron.feedback

\* the requests that have written the LeaderboardEntry of a quiz
EntryWriters(quizId) ==
  {r \in Reqs : reqs[r].lbWrite = "stored" /\ reqs[r].quizId = quizId}

\* C26 as claimed: the LeaderboardEntry of the user for a quiz holds the
\* highest validated score that addLeaderboardEntry and updateQuizProgress
\* calls have submitted for it so far; a lower score never overwrites it.
C26_AsClaimed ==
  \A e \in leaderboard :
    /\ EntryWriters(e.quizId) # {}
    /\ e.score = Max({reqs[r].validated : r \in EntryWriters(e.quizId)})

\* the validated score is what the rules make of the submitted one: 0 for
\* a value that is no number or lies outside 0..100, else the nearest
\* integer
IsValidated(score, v) ==
  IF score.type = "number" /\ score.n >= 0 /\ score.n <= 1000
  THEN 10 * v - 5 <= score.n /\ score.n < 10 * v + 5
  ELSE v = 0

ScoreKinds == {"lessonProgress", "quizProgress", "leaderboardEntry"}

\* C27: every score in LearningProgress and LeaderboardEntry is an integer in
\* 0..100.  The handlers validate the submitted score (0 for a value that is
\* no number or is out of range, else the score rounded) and each write
\* stores the validated score; generateLesson writes 0.
C27_ScoresInRange ==
  /\ [](/\ \A p \in progress : p.score \in 0..100
        /\ \A e \in leaderboard : e.score \in 0..100
        /\ \A r \in Reqs :
             /\ (reqs[r].kind \in ScoreKinds /\ reqs[r].pc \notin {"idle", "ulp_findLesson",
                   "uqp_findQuiz", "ale_findQuiz"} /\ reqs[r].res.status \in {0, 200}) =>
                  IsValidated(reqs[r].score, reqs[r].validated)
             /\ (reqs[r].kind = "lesson" /\ reqs[r].res.status = 200) =>
                  reqs[r].res.progress.score = 0)
  /\ [][\A r \in Reqs :
          /\ (reqs[r].pc \in {"ulp_upsert", "uqp_upsertProgress", "ale_upsertProgress"}
              /\ reqs'[r] # reqs[r]) =>
               \E p \in progress' :
                 p.lessonId = reqs[r].lessonId /\ p.score = reqs[r].validated
          /\ (reqs[r].pc \in {"uqp_upsertLeaderboard", "ale_transaction"}
              /\ reqs'[r] # reqs[r]) =>
               \E e \in leaderboard' :
                 e.quizId = reqs[r].quizId /\ e.score = reqs[r].validated
          /\ (reqs[r].pc = "gl_createProgress" /\ reqs'[r] # reqs[r]) =>
               \E p \in progress' : p.lessonId = r /\ p.score = 0]_vars

\* C27 witness: a submitted score of 79.5 is stored as 80 in both tables, and
\* a request with a score of 100.4 was answered with its score validated to 0
C27_Witness ==
  \E r1, r2 \in Reqs :
    /\ reqs[r1].kind \in ScoreKinds /\ reqs[r1].score = Num(1004)
    /\ Done(r1) /\ reqs[r1].res.status = 200 /\ reqs[r1].validated = 0
    /\ reqs[r2].kind = "quizProgress" /\ reqs[r2].score = Num(795)
    /\ Done(r2) /\ reqs[r2].res.status = 200
    /\ \E e \in leaderboard : e.quizId = reqs[r2].quizId /\ e.score = 80
    /\ \E p \in progress : p.lessonId = reqs[r2].lessonId /\ p.score = 80

====
